---- MODULE Spec2Model ----
(***************************************************************************)
(* Model of the video composition pipeline of slideshow-builder:           *)
(* VideoEngine.create_slideshow and the helpers it drives                  *)
(* (sort_key, SlideshowGenerator.create_video, load_append_video,          *)
(* AudioManager.prepare_background_music, make_silent_audio,               *)
(* _compose_final, apply_timer_overlay, write_video_manually).             *)
(*                                                                         *)
(* Time is in whole seconds, frame rates are in thousandths of a frame per *)
(* second, a file name is the sequence of its code points.                 *)
(***************************************************************************)
EXTENDS Integers, Sequences, FiniteSets, TLC

(***************************************************************************)
(* Bounds of the model.                                                    *)
(***************************************************************************)
\* most entries a listed image directory holds
MaxImages == 4
\* largest configured target_video_duration
MaxTargetDuration == 8
\* largest configured image_duration
MaxImageDuration == 2
\* ticks to the second where the timer overlay is checked on its own
TicksPerSecond == 2

\* an optional value is a sequence of at most one element
None == <<>>
Some(x) == <<x>>

Min(a, b) == IF a < b THEN a ELSE b
Max(a, b) == IF a > b THEN a ELSE b
Range(s) == {s[i] : i \in 1..Len(s)}

(***************************************************************************)
(* Strings as sequences of code points.                                    *)
(***************************************************************************)
SLASH == <<47>>
IsDigit(c) == c >= 48 /\ c <= 57

\* Python's str.__lt__: lexicographic by code point, a proper prefix first.
StrLess(a, b) ==
    \E i \in 1..(Min(Len(a), Len(b)) + 1) :
        /\ \A j \in 1..(i - 1) : a[j] = b[j]
        /\ IF i <= Len(a) /\ i <= Len(b) THEN a[i] < b[i] ELSE Len(a) < Len(b)

\* str.lower() on the ASCII range
LowerChar(c) == IF c >= 65 /\ c <= 90 THEN c + 32 ELSE c
Lower(s) == [i \in 1..Len(s) |-> LowerChar(s[i])]
\* str.upper() on the ASCII range
UpperChar(c) == IF c >= 97 /\ c <= 122 THEN c - 32 ELSE c
Upper(s) == [i \in 1..Len(s) |-> UpperChar(s[i])]

EndsWith(s, suffix) ==
    /\ Len(suffix) <= Len(s)
    /\ SubSeq(s, Len(s) - Len(suffix) + 1, Len(s)) = suffix

\* os.path.basename: what follows the last '/'
basename(path) ==
    LET cuts == {i \in 1..Len(path) : path[i] = 47}
        last == IF cuts = {} THEN 0 ELSE CHOOSE i \in cuts : \A j \in cuts : j <= i
    IN  SubSeq(path, last + 1, Len(path))

\* os.path.join(folder, name) for a folder without a trailing '/'
join(folder, name) == folder \o SLASH \o name

\* length of the run of digits re.match(r'(\d+)', filename) matches
DigitRun(s) ==
    LET stops == {i \in 1..Len(s) : ~IsDigit(s[i])}
    IN  IF stops = {} THEN Len(s)
        ELSE (CHOOSE i \in stops : \A j \in stops : i <= j) - 1

\* int(match.group(1))
RECURSIVE ParseInt(_)
ParseInt(digits) ==
    IF digits = <<>> THEN 0
    ELSE 10 * ParseInt(SubSeq(digits, 1, Len(digits) - 1)) + (digits[Len(digits)] - 48)

(***************************************************************************)
(* nextcloud_client.sort_key and the sort both image sources apply.        *)
(***************************************************************************)
\* a key that orders the digit-prefixed names as text, like the others
sort_key_textual(filepath) ==
    LET filename == basename(filepath) IN <<1, filename, filename>>

\* a key that leaves out the file name as the last component
sort_key_no_tiebreak(filepath) ==
    LET filename == basename(filepath)
        n == DigitRun(filename)
    IN  IF n > 0 THEN <<0, ParseInt(SubSeq(filename, 1, n)), <<>> >>
        ELSE <<1, filename, <<>> >>

sort_key(filepath) ==
    LET filename == basename(filepath)
        n == DigitRun(filename)
    IN  IF n > 0 THEN <<0, ParseInt(SubSeq(filename, 1, n)), filename>>
        ELSE <<1, filename, filename>>

\* Python's tuple comparison on two keys (tag, number or name, name)
KeyLess(k1, k2) ==
    \/ k1[1] < k2[1]
    \/ /\ k1[1] = k2[1]
       /\ \/ IF k1[1] = 0 THEN k1[2] < k2[2] ELSE StrLess(k1[2], k2[2])
          \/ k1[2] = k2[2] /\ StrLess(k1[3], k2[3])

\* list.sort(key=sort_key) is stable: an element goes after the elements
\* already placed whose key is not greater than its own
RECURSIVE InsertSorted(_, _)
InsertSorted(x, sorted) ==
    IF sorted = <<>> THEN <<x>>
    ELSE IF KeyLess(sort_key(x), sort_key(Head(sorted)))
         THEN <<x>> \o sorted
         ELSE <<Head(sorted)>> \o InsertSorted(x, Tail(sorted))

RECURSIVE SortPaths(_)
SortPaths(paths) ==
    IF paths = <<>> THEN <<>>
    ELSE InsertSorted(paths[Len(paths)], SortPaths(SubSeq(paths, 1, Len(paths) - 1)))

(***************************************************************************)
(* File names, folders and the files the environment can hold.             *)
(***************************************************************************)
\* "1.jpg" "2.jpg" "10.jpg" "a.jpg" "01.jpg" "B.PNG" "n.txt"
F_1 == <<49, 46, 106, 112, 103>>
F_2 == <<50, 46, 106, 112, 103>>
F_10 == <<49, 48, 46, 106, 112, 103>>
F_a == <<97, 46, 106, 112, 103>>
F_01 == <<48, 49, 46, 106, 112, 103>>
F_B == <<66, 46, 80, 78, 71>>
F_txt == <<110, 46, 116, 120, 116>>

\* the files an image folder may hold, in the specification of the sourcing
SortPool == {F_1, F_2, F_10, F_a, F_01, F_B, F_txt}
\* the files an image folder may hold, in the specification of the pipeline
EnginePool == {F_2, F_10}

\* config.image_folder, "/app/images"
IMAGE_FOLDER == <<47, 97, 112, 112, 47, 105, 109, 97, 103, 101, 115>>
\* the directory tempfile.mkdtemp() makes for downloaded images, "/tmp/img"
TEMP_IMG_DIR == <<47, 116, 109, 112, 47, 105, 109, 103>>
\* config.nextcloud_image_path, "p/", and the href of that folder, "/dav/p/"
REMOTE_IMAGE_PATH == <<112, 47>>
REMOTE_IMAGE_HREF == <<47, 100, 97, 118, 47, 112, 47>>

\* extensions = ('.jpg', '.jpeg', '.png', '.webp', '.bmp')
extensions ==
    << <<46, 106, 112, 103>>, <<46, 106, 112, 101, 103>>, <<46, 112, 110, 103>>,
       <<46, 119, 101, 98, 112>>, <<46, 98, 109, 112>> >>

\* every enumeration order of a set of files
Orders(S) == {o \in [1..Cardinality(S) -> S] : Range(o) = S}

\* the folders of at most MaxImages entries over a pool of files
Folders(pool) == {d \in SUBSET pool : Cardinality(d) <= MaxImages}

RECURSIVE StripSlashes(_)
\* str.strip('/')
StripSlashes(s) ==
    IF s = <<>> THEN s
    ELSE IF Head(s) = 47 THEN StripSlashes(Tail(s))
    ELSE IF s[Len(s)] = 47 THEN StripSlashes(SubSeq(s, 1, Len(s) - 1))
    ELSE s

\* glob.glob(join(folder, "*" + ext)) and the same with ext.upper(), for
\* every ext: the names of the folder that end in an extension, all in
\* lower case or all in upper case
LocalMatches(dir) ==
    {n \in dir : \E k \in 1..Len(extensions) :
        EndsWith(n, extensions[k]) \/ EndsWith(n, Upper(extensions[k]))}

\* file_href.lower().endswith(allowed_extensions)
RemoteAllowed(href, allowed_extensions) ==
    \E k \in 1..Len(allowed_extensions) : EndsWith(Lower(href), allowed_extensions[k])

\* NextcloudClient.list_and_download_files without a failing request:
\* the hrefs of the PROPFIND response in the order sent, the folder itself
\* and the other extensions skipped, each file stored under temp_dir and the
\* local paths sorted with sort_key
list_and_download_files(hrefs, remote_path, allowed_extensions, temp_dir) ==
    LET Wanted(h) == /\ StripSlashes(h) # StripSlashes(remote_path)
                     /\ RemoteAllowed(h, allowed_extensions)
        kept == SelectSeq(hrefs, Wanted)
    IN  SortPaths([i \in 1..Len(kept) |-> join(temp_dir, basename(kept[i]))])

(***************************************************************************)
(* State.                                                                  *)
(***************************************************************************)
VARIABLES
    cfg,                        \* the Config object the engine was built with
    nc_client,                  \* VideoEngine.nc_client is set
    pc,                         \* position in create_slideshow
    outcome,                    \* "running", "returned" or the exception raised
    temp_dirs,                  \* the list temp_dirs of the run
    disk,                       \* the temporary directories and files on disk
    image_paths,
    included_slides,
    append_video_clip,
    fps,
    slideshow_target_duration,
    slideshow_video,
    slideshow_audio,
    final_video,
    music_files,                \* locals of prepare_background_music
    music_pool,
    selected_music,
    current_music_duration,
    round_draws,                \* the values of track_path since every track
                                \* of the library had been drawn equally often
    current_stage,              \* HealthManager.current_stage
    calls,                      \* the collaborators called so far, in order
    output_file,                \* what the exporter wrote
    uploaded,                   \* what the upload sink received
    settings,                   \* the overrides in the settings database
    other,                      \* a second invocation of create_slideshow on
                                \* the same engine: its position and temp_dirs
    remote                      \* the paths validate_resources finds on the
                                \* Nextcloud server

vars == <<cfg, nc_client, pc, outcome, temp_dirs, disk, image_paths,
          included_slides, append_video_clip, fps, slideshow_target_duration,
          slideshow_video, slideshow_audio, final_video, music_files,
          music_pool, selected_music, current_music_duration, round_draws,
          current_stage, calls, output_file, uploaded, settings,
          other, remote>>

music_locals == <<music_files, music_pool, selected_music, current_music_duration,
                  round_draws>>

(***************************************************************************)
(* Config.__init__: the settings create_slideshow reads.  A path setting   *)
(* is TRUE when it is set.  The sources, the client and the upload path    *)
(* vary together with the deployment.                                      *)
(***************************************************************************)
Deployments ==
    { [nc_client |-> FALSE, source |-> "local", upload_nextcloud_path |-> FALSE],
      [nc_client |-> TRUE, source |-> "nextcloud", upload_nextcloud_path |-> TRUE],
      [nc_client |-> TRUE, source |-> "local", upload_nextcloud_path |-> FALSE],
      [nc_client |-> FALSE, source |-> "nextcloud", upload_nextcloud_path |-> TRUE] }

Config(dep, d, T, append, timer) ==
    [ image_duration |-> d,
      target_video_duration |-> T,
      image_source |-> dep.source,
      nextcloud_image_path |-> dep.source = "nextcloud",
      music_folder |-> TRUE,
      music_source |-> dep.source,
      append_video_path |-> append,
      append_video_source |-> dep.source,
      upload_nextcloud_path |-> dep.upload_nextcloud_path,
      enable_timer |-> timer,
      timer_minutes |-> 5,
      timer_position |-> "auto" ]

(***************************************************************************)
(* The settings database and get_env_var (settings_manager.py 61-115,      *)
(* config_manager.py 13-80).  A value is a string, a sequence of code      *)
(* points; a key without an override holds None.                           *)
(***************************************************************************)
SettingKeys == {"IMAGE_DURATION", "TARGET_VIDEO_DURATION", "ENABLE_TIMER"}

NoOverrides == [key \in SettingKeys |-> None]

\* the process environment: the two durations are set, ENABLE_TIMER is not
Environ ==
    [ IMAGE_DURATION |-> Some(<<50>>),
      TARGET_VIDEO_DURATION |-> Some(<<56>>),
      ENABLE_TIMER |-> None ]

\* the values a "!set" command stores: "4" and "6" in double quotes for the
\* target duration, " 1" for the image duration, "True" for the timer
SettingValues ==
    [ IMAGE_DURATION |-> {<<32, 49>>},
      TARGET_VIDEO_DURATION |-> {<<52>>, <<34, 54, 34>>},
      ENABLE_TIMER |-> {<<84, 114, 117, 101>>} ]

WHITESPACE == {9, 10, 11, 12, 13, 32}

RECURSIVE Strip(_, _)
\* str.strip(chars)
Strip(s, chars) ==
    IF s = <<>> THEN s
    ELSE IF s[1] \in chars THEN Strip(Tail(s), chars)
    ELSE IF s[Len(s)] \in chars THEN Strip(SubSeq(s, 1, Len(s) - 1), chars)
    ELSE s

RECURSIVE Str(_)
\* str(n) of a natural number
Str(n) == IF n < 10 THEN <<48 + n>> ELSE Str(n \div 10) \o <<48 + (n % 10)>>

\* get_env_var: database override > environment variable > default, with
\* white space and quotes stripped
get_env_var(store, name, default) ==
    LET db_value == store[name]
        value == IF db_value # None THEN db_value
                 ELSE IF Environ[name] # None THEN Environ[name] ELSE default
    IN  IF value # None
        THEN Some(Strip(Strip(Strip(value[1], WHITESPACE), {34}), {39}))
        ELSE None

\* get_env_int: int() of the value, the default when int() raises
get_env_int(store, name, default) ==
    LET value == get_env_var(store, name, Some(Str(default)))[1]
    IN  IF value # <<>> /\ DigitRun(value) = Len(value) THEN ParseInt(value)
        ELSE default

\* get_env_bool: the value lower-cased is "true"
get_env_bool(store, name, default) ==
    LET text == IF default THEN <<84, 114, 117, 101>> ELSE <<70, 97, 108, 115, 101>>
    IN  Lower(get_env_var(store, name, Some(text))[1]) = <<116, 114, 117, 101>>

\* Config.__init__, lines 102-103 and 149: the three settings read from the
\* store; the others as in config
ConfigFrom(store, config) ==
    [config EXCEPT
        !.image_duration = get_env_int(store, "IMAGE_DURATION", 10),
        !.target_video_duration = get_env_int(store, "TARGET_VIDEO_DURATION", 600),
        !.enable_timer = get_env_bool(store, "ENABLE_TIMER", FALSE)]

\* a Config whose attributes are read from the store at every access
self_config_reread == ConfigFrom(settings, cfg)

\* self.config, the object VideoEngine.__init__ was given (line 45)
self_config == cfg

\* no second invocation
NoOther == [pc |-> "done", temp_dirs |-> <<>>]

\* fps = 5, the default starting FPS
DEFAULT_FPS == 5000

\* VideoEngine.__init__ and the first lines of create_slideshow
InitRun(dep, d, T, append, timer) ==
    /\ cfg = Config(dep, d, T, append, timer)
    /\ nc_client = dep.nc_client
    /\ pc = "source_images"
    /\ outcome = "running"
    /\ temp_dirs = <<>>
    /\ disk = {}
    /\ image_paths = None
    /\ included_slides = <<>>
    /\ append_video_clip = None
    /\ fps = DEFAULT_FPS
    /\ slideshow_target_duration = 0
    /\ slideshow_video = None
    /\ slideshow_audio = None
    /\ final_video = None
    /\ music_files = <<>>
    /\ music_pool = <<>>
    /\ selected_music = <<>>
    /\ current_music_duration = 0
    /\ round_draws = <<>>
    /\ current_stage = "None"
    /\ calls = <<>>
    /\ output_file = None
    /\ uploaded = None

Init ==
    \E dep \in Deployments, d \in 1..MaxImageDuration, T \in 0..MaxTargetDuration,
       append \in BOOLEAN, timer \in BOOLEAN :
        InitRun(dep, d, T, append, timer) /\ settings = NoOverrides /\ other = NoOther /\ remote = {}

\* an exception leaves the try block for the finally clause
Raise(exc) ==
    /\ outcome' = exc
    /\ pc' = "finally"

(***************************************************************************)
(* 1. Source Images (video_engine.py 125-130, _source_images 211-234).     *)
(***************************************************************************)
\* the local scan: glob yields the matching names in any order, list(set())
\* keeps any order, and the list is sorted with sort_key
LocalImages(pool) ==
    UNION { { SortPaths([i \in 1..Len(o) |-> join(IMAGE_FOLDER, o[i])]) :
                o \in Orders(LocalMatches(dir)) } : dir \in Folders(pool) }

\* the remote listing: the folder's own href and the files in any order
RemoteImages(pool) ==
    UNION { { list_and_download_files(
                 <<REMOTE_IMAGE_HREF>> \o [i \in 1..Len(o) |-> REMOTE_IMAGE_HREF \o o[i]],
                 REMOTE_IMAGE_PATH, extensions, TEMP_IMG_DIR) :
                o \in Orders(dir) } : dir \in Folders(pool) }

SourceImages(pool) ==
    /\ pc = "source_images"
    /\ current_stage' = "Sourcing"
    /\ IF self_config.image_source = "nextcloud" /\ nc_client /\ self_config.nextcloud_image_path
       THEN \/ \E paths \in RemoteImages(pool) :
                 \* the listing and every download succeeded
                 /\ image_paths' = Some(paths)
                 /\ temp_dirs' = Append(temp_dirs, TEMP_IMG_DIR)
                 /\ disk' = disk \cup {TEMP_IMG_DIR}
                 /\ included_slides' = [i \in 1..Len(paths) |-> basename(paths[i])]
                 /\ pc' = "append_video"
                 /\ UNCHANGED outcome
            \/ \* a request failed: the directory is removed, (None, None)
               \* comes back and the comprehension over None raises
               /\ image_paths' = None
               /\ UNCHANGED <<temp_dirs, disk, included_slides>>
               /\ Raise("TypeError")
            \/ \* storing a downloaded file raised an OSError, which is
               \* neither of the exceptions list_and_download_files
               \* catches: the directory stays and is not in temp_dirs
               /\ \E paths \in RemoteImages(pool) : paths # <<>>
               /\ image_paths' = None
               /\ disk' = disk \cup {TEMP_IMG_DIR}
               /\ UNCHANGED <<temp_dirs, included_slides>>
               /\ Raise("OSError")
       ELSE \E paths \in LocalImages(pool) :
                 /\ image_paths' = Some(paths)
                 /\ included_slides' = [i \in 1..Len(paths) |-> basename(paths[i])]
                 /\ pc' = "append_video"
                 /\ UNCHANGED <<temp_dirs, disk, outcome>>
    /\ UNCHANGED <<cfg, other, remote, settings, nc_client, append_video_clip, fps, slideshow_target_duration,
                   slideshow_video, slideshow_audio, final_video, music_locals,
                   calls, output_file, uploaded>>

(***************************************************************************)
(* 2. Prepare Append Video (video_engine.py 132-142, 236-243,              *)
(*    slideshow_generator.py 92-117).                                      *)
(***************************************************************************)
\* the directory download_file makes for the append video, "/tmp/vid"
TEMP_VID_DIR == <<47, 116, 109, 112, 47, 118, 105, 100>>
\* config.append_video_path, "v.mp4"
APPEND_VIDEO_PATH == <<118, 46, 109, 112, 52>>

\* the video files the append path may name: duration, frame rate as the
\* decoder reports it (0 when it reports none) and whether it has sound
AppendVideos ==
    { [duration |-> 2, fps |-> 60000, audio |-> TRUE],
      [duration |-> 6, fps |-> 23976, audio |-> TRUE],
      [duration |-> 9, fps |-> 0, audio |-> FALSE],
      [duration |-> 4, fps |-> 3000, audio |-> TRUE],
      [duration |-> 3, fps |-> 12345, audio |-> FALSE] }

\* round(x, 2): the nearest hundredth; at a decimal tie the binary value of
\* the float decides, so either neighbour can come out
Round2(x) ==
    LET low == (x \div 10) * 10
    IN  IF x % 10 < 5 THEN {low}
        ELSE IF x % 10 > 5 THEN {low + 10}
        ELSE {low, low + 10}

\* a clamp that leaves the upper bound out
ClampFps_no_upper(x) == Max(5000, x)

\* max(5, min(30, append_video_clip.fps))
ClampFps(x) == Max(5000, Min(30000, x))

\* load_append_video: None for a missing path, a missing file and a decoder
\* error, the clip otherwise; clip.reader keeps the frame rate of the file
load_append_video(video_path, file) ==
    IF video_path = None \/ file = None THEN None
    ELSE Some([ duration |-> file[1].duration,
                fps |-> file[1].fps,
                reader_fps |-> file[1].fps,
                audio |-> file[1].audio ])

\* what lines 136-142 leave in append_video_clip and fps for the file found
\* at local_video_path (None: nothing readable there)
LoadAppend(local_video_path, file) ==
    LET clip == load_append_video(local_video_path, file)
    IN  IF clip # None /\ clip[1].fps # 0
        THEN \E f \in Round2(ClampFps(clip[1].fps)) :
                /\ fps' = f
                /\ append_video_clip' = Some([clip[1] EXCEPT !.fps = f])
        ELSE /\ append_video_clip' = clip
             /\ UNCHANGED fps

PrepareAppendVideo ==
    /\ pc = "append_video"
    /\ \/ /\ IF self_config.append_video_path
             THEN /\ current_stage' = "Sourcing"
                  /\ IF self_config.append_video_source = "nextcloud" /\ nc_client
                     THEN \/ \* download_file stored the file in a new directory
                             /\ temp_dirs' = Append(temp_dirs, TEMP_VID_DIR)
                             /\ disk' = disk \cup {TEMP_VID_DIR}
                             /\ \E file \in {None} \cup {Some(v) : v \in AppendVideos} :
                                  LoadAppend(Some(join(TEMP_VID_DIR, basename(APPEND_VIDEO_PATH))), file)
                          \/ \* download_file failed and returned (None, None)
                             /\ UNCHANGED <<temp_dirs, disk>>
                             /\ LoadAppend(None, None)
                     ELSE /\ UNCHANGED <<temp_dirs, disk>>
                          /\ \E file \in {None} \cup {Some(v) : v \in AppendVideos} :
                               LoadAppend(Some(APPEND_VIDEO_PATH), file)
             ELSE UNCHANGED <<current_stage, temp_dirs, disk, append_video_clip, fps>>
          /\ pc' = "durations"
          /\ UNCHANGED outcome
       \/ \* storing the downloaded file raised an OSError, which
          \* download_file does not catch: the directory stays
          /\ self_config.append_video_path /\ self_config.append_video_source = "nextcloud" /\ nc_client
          /\ current_stage' = "Sourcing"
          /\ disk' = disk \cup {TEMP_VID_DIR}
          /\ UNCHANGED <<temp_dirs, append_video_clip, fps>>
          /\ Raise("OSError")
    /\ UNCHANGED <<cfg, other, remote, settings, nc_client, image_paths, included_slides,
                   slideshow_target_duration, slideshow_video, slideshow_audio,
                   final_video, music_locals, calls, output_file, uploaded>>

(***************************************************************************)
(* 3. Calculate Durations (video_engine.py 144-148).                       *)
(***************************************************************************)
\* the slideshow portion without the floor at 0
SlideshowTarget_no_floor(T, append) ==
    IF append # None THEN T - append[1].duration ELSE T

\* the slideshow portion that ignores the append video
SlideshowTarget_full(T, append) == T

SlideshowTarget(T, append) ==
    IF append # None THEN Max(0, T - append[1].duration) ELSE T

CalculateDurations ==
    /\ pc = "durations"
    /\ slideshow_target_duration' =
          SlideshowTarget(self_config.target_video_duration, append_video_clip)
    /\ pc' = "generate"
    /\ UNCHANGED <<cfg, other, remote, settings, nc_client, outcome, temp_dirs, disk, image_paths,
                   included_slides, append_video_clip, fps, slideshow_video,
                   slideshow_audio, final_video, music_locals, current_stage,
                   calls, output_file, uploaded>>

(***************************************************************************)
(* 4. Generate Slideshow (video_engine.py 151-158,                         *)
(*    slideshow_generator.py 41-90).                                       *)
(***************************************************************************)
\* the repeat count rounded down
num_repeats_floor(target_duration, sequence_duration) ==
    IF sequence_duration > 0 THEN target_duration \div sequence_duration ELSE 1

\* math.ceil(target_duration / sequence_duration) if sequence_duration > 0 else 1
num_repeats(target_duration, sequence_duration) ==
    IF sequence_duration > 0
    THEN (target_duration + sequence_duration - 1) \div sequence_duration
    ELSE 1

\* a loop that the first failing image ends
decoded_clips_until_failure(paths, decodes) ==
    LET bad == {i \in 1..Len(paths) : paths[i] \notin decodes}
    IN  IF bad = {} THEN paths
        ELSE SubSeq(paths, 1, (CHOOSE i \in bad : \A j \in bad : i <= j) - 1)

\* lines 66-75: the clips of the images that resize_image and ImageClip
\* succeed on (decodes), in the order of image_paths
decoded_clips(paths, decodes) ==
    LET Decodes(p) == p \in decodes IN SelectSeq(paths, Decodes)

\* line 75: the images a warning is printed for
skipped_images(paths, decodes) ==
    LET Fails(p) == p \notin decodes IN SelectSeq(paths, Fails)

\* SlideshowGenerator.create_video; decodes is the set of paths resize_image
\* and ImageClip succeed on.  source_duration is the length of the
\* concatenation the track is cut from.
create_video(paths, decodes, image_duration, target_duration, fps_) ==
    IF paths = <<>> THEN None
    ELSE LET clips == decoded_clips(paths, decodes)
             sequence_duration == Len(clips) * image_duration
             repeats == num_repeats(target_duration, sequence_duration)
         IN  IF clips = <<>> THEN None
             ELSE Some([ clips |-> clips,
                         skipped |-> skipped_images(paths, decodes),
                         image_duration |-> image_duration,
                         num_repeats |-> repeats,
                         source_duration |-> repeats * sequence_duration,
                         duration |-> target_duration,
                         fps |-> fps_,
                         audio |-> None ])

GenerateSlideshow ==
    /\ pc = "generate"
    /\ IF slideshow_target_duration > 0
       THEN /\ current_stage' = "Generating"
            /\ calls' = Append(calls, "create_video")
            /\ \E decodes \in SUBSET Range(image_paths[1]) :
                 slideshow_video' = create_video(image_paths[1], decodes,
                     self_config.image_duration, slideshow_target_duration, fps)
            /\ pc' = "music"
       ELSE /\ pc' = "compose"
            /\ UNCHANGED <<current_stage, calls, slideshow_video>>
    /\ UNCHANGED <<cfg, other, remote, settings, nc_client, outcome, temp_dirs, disk, image_paths,
                   included_slides, append_video_clip, fps,
                   slideshow_target_duration, slideshow_audio, final_video,
                   music_locals, output_file, uploaded>>

(***************************************************************************)
(* 4. Background music (video_engine.py 160-165, audio_manager.py 38-132,  *)
(*    video_utils.py 29-56).                                               *)
(***************************************************************************)
\* "a.mp3" "s.mp3" "x.mp3"
M_a == <<97, 46, 109, 112, 51>>
M_s == <<115, 46, 109, 112, 51>>
M_x == <<120, 46, 109, 112, 51>>

\* what AudioFileClip makes of a music file: its duration, or a failure
MusicInfo(name) ==
    IF name = M_a THEN [duration |-> 20, loads |-> TRUE]
    ELSE IF name = M_s THEN [duration |-> 3, loads |-> TRUE]
    ELSE [duration |-> 0, loads |-> FALSE]

\* the music folders the specification of the audio manager draws from
AudioPool == {M_a, M_s, M_x}
\* the music folders the specification of the pipeline draws from
EngineMusicPool == {M_a, M_x}

\* config.music_folder: "/app/music" locally, "m/" on Nextcloud ("/dav/m/")
MUSIC_FOLDER == <<47, 97, 112, 112, 47, 109, 117, 115, 105, 99>>
REMOTE_MUSIC_PATH == <<109, 47>>
REMOTE_MUSIC_HREF == <<47, 100, 97, 118, 47, 109, 47>>
\* the directory tempfile.mkdtemp() makes for downloaded music, "/tmp/mus"
TEMP_MUSIC_DIR == <<47, 116, 109, 112, 47, 109, 117, 115>>

\* allowed_extensions=('.mp3',)
MP3_EXTENSIONS == << <<46, 109, 112, 51>> >>

\* sorted(glob.glob(join(music_folder, "*.mp3")))
LocalMusic(dir) ==
    LET found == {join(MUSIC_FOLDER, n) : n \in {m \in dir : EndsWith(m, MP3_EXTENSIONS[1])}}
    IN  CHOOSE o \in Orders(found) : \A i, j \in 1..Len(o) : i < j => StrLess(o[i], o[j])

\* the buffer of the selection loop, target_duration + 30
MUSIC_BUFFER == 30
\* fade_duration = 10
FADE_DURATION == 10

\* make_silent_audio(duration).  An audio track is its duration, the
\* music files it plays (tracks), the end of the last second that carries
\* music (music_end), the second its fade-out starts at and whether
\* audio_fadeout was applied to its music
make_silent_audio(duration) ==
    [tracks |-> <<>>, duration |-> duration, music_end |-> 0, fade_start |-> 0,
     faded |-> FALSE]

RECURSIVE SumDurations(_)
SumDurations(tracks) ==
    IF tracks = <<>> THEN 0
    ELSE MusicInfo(basename(Head(tracks))).duration + SumDurations(Tail(tracks))

\* the end of the music with no silence reserved
audio_end_no_silence(target_duration) == Max(0, target_duration)

\* audio_end = max(0, target_duration - 5)
audio_end(target_duration) == Max(0, target_duration - 5)

\* the music layer returned without the silent canvas under it
CompositeDuration_music_only(target_duration, bg_duration) == bg_duration

\* CompositeAudioClip([full_silent_audio, bg_music]) with
\* slideshow_audio.duration = target_duration
CompositeDuration(target_duration, bg_duration) == target_duration

\* a handler that goes on with the whole concatenation
apply_fadeout_or_full(bg_music, full_music, succeeds) ==
    IF succeeds
    THEN [bg_music EXCEPT !.fade_start = Max(0, bg_music.music_end - FADE_DURATION),
                          !.faded = TRUE]
    ELSE full_music

\* lines 115-120: bg_music after the try: audio_fadeout(bg_music,
\* fade_duration) when it succeeds, bg_music as it was when it raises
apply_fadeout(bg_music, full_music, succeeds) ==
    IF succeeds
    THEN [bg_music EXCEPT !.fade_start = Max(0, bg_music.music_end - FADE_DURATION),
                          !.faded = TRUE]
    ELSE bg_music

\* the concatenation of the selected tracks returned as it is
compose_music_untrimmed(selected, target_duration, faded) ==
    [ tracks |-> selected,
      duration |-> SumDurations(selected),
      music_end |-> SumDurations(selected),
      fade_start |-> SumDurations(selected),
      faded |-> FALSE ]

\* lines 105-128: concatenation, sub-range, fade-out (faded says whether
\* audio_fadeout succeeded) and the composite over the silent canvas, which
\* plays its layers up to its duration
compose_music(selected, target_duration, faded) ==
    LET full_duration == SumDurations(selected)
        full_music == [music_end |-> full_duration, fade_start |-> full_duration,
                       faded |-> FALSE]
        bg_duration == audio_end(target_duration)
        bg_music == [music_end |-> Min(full_duration, bg_duration),
                     fade_start |-> Min(full_duration, bg_duration),
                     faded |-> FALSE]
        layer == apply_fadeout(bg_music, full_music, faded)
        canvas == make_silent_audio(target_duration)
        duration == CompositeDuration(canvas.duration, bg_duration)
    IN  [ tracks |-> selected,
          duration |-> duration,
          music_end |-> Min(duration, Max(canvas.music_end, layer.music_end)),
          fade_start |-> Min(duration, layer.fade_start),
          faded |-> layer.faded ]

\* lines 59-83: find the music files and shuffle them
MusicList(pool) ==
    /\ pc = "music"
    /\ current_stage' = "Generating"
    /\ calls' = Append(calls, "prepare_background_music")
    /\ \/ \E files \in
          IF self_config.music_source = "nextcloud" /\ self_config.music_folder /\ nc_client
          THEN {None} \cup
               UNION { { Some(list_and_download_files(
                            <<REMOTE_MUSIC_HREF>> \o [i \in 1..Len(o) |-> REMOTE_MUSIC_HREF \o o[i]],
                            REMOTE_MUSIC_PATH, MP3_EXTENSIONS, TEMP_MUSIC_DIR)) :
                         o \in Orders(dir) } : dir \in SUBSET pool }
          ELSE IF self_config.music_source = "local" /\ self_config.music_folder
          THEN {Some(LocalMusic(dir)) : dir \in SUBSET pool}
          ELSE {Some(<<>>)} :
         /\ IF self_config.music_source = "nextcloud" /\ self_config.music_folder /\ nc_client
               /\ files # None
            THEN /\ temp_dirs' = Append(temp_dirs, TEMP_MUSIC_DIR)
                 /\ disk' = disk \cup {TEMP_MUSIC_DIR}
            ELSE UNCHANGED <<temp_dirs, disk>>
         /\ IF files = None \/ files = Some(<<>>)
            THEN \* "No music files found."
                 /\ slideshow_audio' = None
                 /\ pc' = "set_audio"
                 /\ UNCHANGED music_locals
            ELSE /\ music_files' = files[1]
                 /\ selected_music' = <<>>
                 /\ current_music_duration' = 0
                 /\ round_draws' = <<>>
                 /\ \E shuffled \in Orders(Range(files[1])) : music_pool' = shuffled
                 /\ pc' = "music_loop"
                 /\ UNCHANGED slideshow_audio
         /\ UNCHANGED outcome
       \/ \* storing a downloaded track raised an OSError, which neither
          \* list_and_download_files nor line 65 catches: the directory
          \* stays and the exception leaves create_slideshow
          /\ self_config.music_source = "nextcloud" /\ self_config.music_folder /\ nc_client
          /\ disk' = disk \cup {TEMP_MUSIC_DIR}
          /\ UNCHANGED <<temp_dirs, slideshow_audio, music_locals>>
          /\ Raise("OSError")
    /\ UNCHANGED <<cfg, other, remote, settings, nc_client, image_paths, included_slides,
                   append_video_clip, fps, slideshow_target_duration,
                   slideshow_video, final_video, output_file, uploaded>>

RECURSIVE SelectLoop(_, _, _, _, _)
\* lines 87-100: the tracks the loop selects when every shuffle yields the
\* same order
SelectLoop(order, pool, selected, duration, target_duration) ==
    IF duration >= target_duration + MUSIC_BUFFER THEN selected
    ELSE LET drawn == IF pool = <<>> THEN order ELSE pool
             track == MusicInfo(basename(Head(drawn)))
         IN  IF track.loads
             THEN SelectLoop(order, Tail(drawn), Append(selected, Head(drawn)),
                             duration + track.duration, target_duration)
             ELSE SelectLoop(order, Tail(drawn), selected, duration, target_duration)

\* a pool that is refilled and reshuffled before every draw
refill_always(pool, files) == Orders(Range(files))

\* lines 88-91: the pool the draw takes from, refilled with a shuffle of
\* music_files when it is empty
refill(pool, files) == IF pool = <<>> THEN Orders(Range(files)) ELSE {pool}

\* the draws since the tracks were level, after one more draw
draws_after(draws, track_path, files) ==
    LET all == Append(draws, track_path)
    IN  IF Len(all) = Len(files) /\ Range(all) = Range(files) THEN <<>> ELSE all

\* lines 87-91: a pass of the selection loop begins; the pool is refilled
\* when it is empty
MusicRefill ==
    /\ pc = "music_loop"
    /\ current_music_duration < slideshow_target_duration + MUSIC_BUFFER
    /\ \E pool \in refill(music_pool, music_files) :
         /\ pool # music_pool
         /\ music_pool' = pool
    /\ UNCHANGED <<cfg, other, remote, settings, nc_client, pc, outcome, temp_dirs,
                   disk, image_paths, included_slides, append_video_clip, fps,
                   slideshow_target_duration, slideshow_video, slideshow_audio,
                   final_video, music_files, selected_music,
                   current_music_duration, round_draws, current_stage, calls,
                   output_file, uploaded>>

\* lines 93-100: the pass draws the first track of the pool and loads it
MusicDraw ==
    /\ pc = "music_loop"
    /\ current_music_duration < slideshow_target_duration + MUSIC_BUFFER
    /\ music_pool # <<>>
    /\ LET track_path == Head(music_pool)
           track == MusicInfo(basename(track_path))
       IN  /\ music_pool' = Tail(music_pool)
           /\ round_draws' = draws_after(round_draws, track_path, music_files)
           /\ IF track.loads
              THEN /\ selected_music' = Append(selected_music, track_path)
                   /\ current_music_duration' = current_music_duration + track.duration
              ELSE UNCHANGED <<selected_music, current_music_duration>>
    /\ UNCHANGED <<cfg, other, remote, settings, nc_client, pc, outcome, temp_dirs, disk, image_paths,
                   included_slides, append_video_clip, fps,
                   slideshow_target_duration, slideshow_video, slideshow_audio,
                   final_video, music_files, current_stage, calls, output_file,
                   uploaded>>

\* line 128, return slideshow_audio: the track is all the call returns; no
\* metadata file is read and no list of attributions is built
returned_attributions(selected) == None

\* lines 102-132: the loop is over; compose the track and return
MusicCompose ==
    /\ pc = "music_loop"
    /\ current_music_duration >= slideshow_target_duration + MUSIC_BUFFER
    /\ \/ \E faded \in BOOLEAN :
            slideshow_audio' =
                IF selected_music = <<>> THEN None
                ELSE Some(compose_music(selected_music, slideshow_target_duration, faded))
       \/ \* "Error processing background music"
          slideshow_audio' = None
    /\ music_files' = <<>>
    /\ music_pool' = <<>>
    /\ selected_music' = <<>>
    /\ current_music_duration' = 0
    /\ round_draws' = <<>>
    /\ pc' = "set_audio"
    /\ UNCHANGED <<cfg, other, remote, settings, nc_client, outcome, temp_dirs, disk, image_paths,
                   included_slides, append_video_clip, fps,
                   slideshow_target_duration, slideshow_video, final_video,
                   current_stage, calls, output_file, uploaded>>

(***************************************************************************)
(* 4. Attach the audio (video_engine.py 167-170).                          *)
(***************************************************************************)
SetAudio ==
    /\ pc = "set_audio"
    /\ LET audio == IF slideshow_audio = None
                    THEN Some(make_silent_audio(slideshow_target_duration))
                    ELSE slideshow_audio
       IN  /\ slideshow_audio' = audio
           /\ IF slideshow_video = None
              THEN \* create_video returned None: None has no set_audio
                   /\ Raise("AttributeError")
                   /\ UNCHANGED slideshow_video
              ELSE /\ slideshow_video' = Some([slideshow_video[1] EXCEPT !.audio = audio])
                   /\ pc' = "compose"
                   /\ UNCHANGED outcome
    /\ UNCHANGED <<cfg, other, remote, settings, nc_client, temp_dirs, disk, image_paths, included_slides,
                   append_video_clip, fps, slideshow_target_duration, final_video,
                   music_locals, current_stage, calls, output_file, uploaded>>

(***************************************************************************)
(* 5. Final Composition (video_engine.py 172-173, 245-259).                *)
(***************************************************************************)
\* a composition that puts the append video first
compose_append_first(slideshow, append) ==
    IF append # None
    THEN IF slideshow # None THEN <<"append", "slideshow">> ELSE <<"append">>
    ELSE IF slideshow # None THEN <<"slideshow">> ELSE <<>>

\* the tracks of the final video, in order; <<>> stands for final = None
compose(slideshow, append) ==
    IF append # None
    THEN IF slideshow # None THEN <<"slideshow", "append">> ELSE <<"append">>
    ELSE IF slideshow # None THEN <<"slideshow">> ELSE <<>>

\* the duration of the track that parts names
PartsDuration(parts, slideshow, append) ==
    (IF \E i \in 1..Len(parts) : parts[i] = "slideshow" THEN slideshow[1].duration ELSE 0)
    + (IF \E i \in 1..Len(parts) : parts[i] = "append" THEN append[1].duration ELSE 0)

\* _compose_final(slideshow, append, fps): the final track, or None when it
\* raises RuntimeError("No video content created.")
compose_final(slideshow, append, fps_) ==
    LET parts == compose(slideshow, append)
    IN  IF parts = <<>> THEN None
        ELSE Some([ parts |-> parts,
                    duration |-> PartsDuration(parts, slideshow, append),
                    fps |-> fps_,
                    has_audio |-> \/ slideshow # None
                                  \/ append # None /\ append[1].audio,
                    timer_start |-> 0,
                    timer_clips |-> <<>>,
                    attr_clips |-> <<>> ])

ComposeFinal ==
    /\ pc = "compose"
    /\ LET final == compose_final(slideshow_video, append_video_clip, fps)
       IN  IF final = None
           THEN /\ Raise("RuntimeError: No video content created.")
                /\ UNCHANGED <<final_video, append_video_clip>>
           ELSE /\ final_video' = final
                \* final = append is the same object: final.fps = fps sets it too
                /\ append_video_clip' =
                      IF final[1].parts = <<"append">>
                      THEN Some([append_video_clip[1] EXCEPT !.fps = fps])
                      ELSE append_video_clip
                /\ pc' = "timer"
                /\ UNCHANGED outcome
    /\ UNCHANGED <<cfg, other, remote, settings, nc_client, temp_dirs, disk, image_paths, included_slides,
                   fps, slideshow_target_duration, slideshow_video,
                   slideshow_audio, music_locals, current_stage, calls,
                   output_file, uploaded>>

(***************************************************************************)
(* Timer overlay (video_engine.py 175-186, slideshow_generator.py 118-158, *)
(* overlay_manager.py 20-63).                                              *)
(***************************************************************************)
\* target_size[0], and the width of the timer box
FRAME_WIDTH == 1920
BOX_W == 260

\* TimerOverlay.create_countdown_clip: the text shown and where.  The times
\* of the overlay are counted in ticks, unit of them to the second, so
\* int(remaining_seconds) is remaining_seconds \div unit
create_countdown_clip(remaining_seconds, duration, position, unit) ==
    [ mins |-> (remaining_seconds \div unit) \div 60,
      secs |-> (remaining_seconds \div unit) % 60,
      duration |-> duration,
      pos |-> IF position = "top-middle"
              THEN [x |-> (FRAME_WIDTH - BOX_W) \div 2, y |-> 50]
              ELSE [h |-> "right", v |-> "bottom"] ]

\* an overlay that counts from the end of each second
timer_overlay_clips_from_zero(video_duration, start_time_offset, total_duration, position, unit) ==
    LET overlay_duration == video_duration - start_time_offset
        shown == {t \in 0..((overlay_duration \div unit) - 1) :
                    \A u \in 0..t :
                        total_duration - (start_time_offset + (u + 1) * unit) >= 0}
    IN  [k \in 1..Cardinality(shown) |->
            [ start |-> start_time_offset + (k - 1) * unit,
              clip |-> create_countdown_clip(
                          total_duration - (start_time_offset + k * unit),
                          unit, position, unit) ]]

\* the clips apply_timer_overlay lays over the video, one per whole second:
\* range(int(overlay_duration)) and duration=1, in ticks
timer_overlay_clips(video_duration, start_time_offset, total_duration, position, unit) ==
    LET overlay_duration == video_duration - start_time_offset
        \* the passes of the loop before remaining goes negative
        shown == {t \in 0..((overlay_duration \div unit) - 1) :
                    \A u \in 0..t :
                        total_duration - (start_time_offset + u * unit) >= 0}
    IN  [k \in 1..Cardinality(shown) |->
            [ start |-> start_time_offset + (k - 1) * unit,
              clip |-> create_countdown_clip(
                          total_duration - (start_time_offset + (k - 1) * unit),
                          unit, position, unit) ]]

RECURSIVE ClipsDuration(_)
\* the durations of a list of overlay clips, added up
ClipsDuration(overlay_clips) ==
    IF overlay_clips = <<>> THEN 0
    ELSE Head(overlay_clips).clip.duration + ClipsDuration(Tail(overlay_clips))

\* the overlay clips played one after the other behind the video, as
\* concatenate_videoclips would
overlay_concatenated(video_duration, overlay_clips) ==
    video_duration + ClipsDuration(overlay_clips)

\* the duration of CompositeVideoClip([video_clip] + overlay_clips)
\* .set_duration(video_clip.duration)
overlay_composite(video_duration, overlay_clips) == video_duration

\* slideshow_generator.py 153-158 and 192-196: the clip returned for a list
\* of overlay clips, the video itself when the list is empty
overlaid_duration(video_duration, overlay_clips) ==
    IF overlay_clips = <<>> THEN video_duration
    ELSE overlay_composite(video_duration, overlay_clips)

\* lines 180-186: the call of apply_timer_overlay with total_duration =
\* final_video.duration; the track keeps the offset it was called with.
\* The timer clips carry no fps and no audio
TimerOverlayCall(start_time_offset, unit) ==
    LET timer_clips == timer_overlay_clips(final_video[1].duration,
                           start_time_offset, final_video[1].duration,
                           self_config.timer_position, unit)
    IN  final_video' = Some([final_video[1] EXCEPT
            !.timer_start = start_time_offset,
            !.timer_clips = timer_clips,
            !.duration = overlaid_duration(@, timer_clips)])

\* display_duration=30, the default of apply_music_attributions
DISPLAY_DURATION == 30

\* apply_music_attributions, lines 178-190: one clip per (start_time,
\* metadata) entry, cut to the end of the video, none for an entry that
\* starts at or after the end
attribution_clips(video_duration, attributions, display_duration) ==
    LET Duration(a) == Min(display_duration, video_duration - a[1])
        Shown(a) == Duration(a) > 0
        shown == SelectSeq(attributions, Shown)
    IN  [k \in 1..Len(shown) |->
            [ start |-> shown[k][1],
              clip |-> [text |-> shown[k][2], duration |-> Duration(shown[k])] ]]

ApplyTimer ==
    /\ pc = "timer"
    /\ IF self_config.enable_timer
       THEN LET timer_start_at ==
                    Max(0, final_video[1].duration - self_config.timer_minutes * 60)
            IN  TimerOverlayCall(timer_start_at, 1)
       ELSE UNCHANGED final_video
    /\ pc' = "write"
    /\ UNCHANGED <<cfg, other, remote, settings, nc_client, outcome, temp_dirs, disk, image_paths,
                   included_slides, append_video_clip, fps,
                   slideshow_target_duration, slideshow_video, slideshow_audio,
                   music_locals, current_stage, calls, output_file, uploaded>>

(***************************************************************************)
(* 6. Export (video_engine.py 188-189, write_video_manually 261-286).      *)
(***************************************************************************)
\* the file NamedTemporaryFile(suffix=".m4a", delete=False) makes, "/tmp/a.m4a"
AUDIO_TEMP == <<47, 116, 109, 112, 47, 97, 46, 109, 52, 97>>

\* lines 266-281: the encoding stage is reported and the audio of the final
\* track, if it has one, is written to the intermediate file
WriteAudio ==
    /\ pc = "write"
    /\ calls' = Append(calls, "write_video_manually")
    /\ current_stage' = "Encoding"
    /\ IF final_video[1].has_audio
       THEN /\ disk' = disk \cup {AUDIO_TEMP}
            /\ \/ pc' = "write_video" /\ UNCHANGED outcome
               \/ \* write_audiofile raises
                  pc' = "write_finally" /\ outcome' = "ExportError"
       ELSE /\ pc' = "write_video"
            /\ UNCHANGED <<disk, outcome>>
    /\ UNCHANGED <<cfg, other, remote, settings, nc_client, temp_dirs, image_paths, included_slides,
                   append_video_clip, fps, slideshow_target_duration,
                   slideshow_video, slideshow_audio, final_video, music_locals,
                   output_file, uploaded>>

\* line 283: ffmpeg_write_video(final_video, output_filepath, fps, ...)
WriteVideo ==
    /\ pc = "write_video"
    /\ \/ /\ output_file' = Some([ duration |-> final_video[1].duration,
                                   fps |-> fps,
                                   audiofile |-> IF AUDIO_TEMP \in disk
                                                 THEN Some(AUDIO_TEMP) ELSE None ])
          /\ UNCHANGED outcome
       \/ \* ffmpeg_write_video raises
          /\ outcome' = "ExportError"
          /\ UNCHANGED output_file
    /\ pc' = "write_finally"
    /\ UNCHANGED <<cfg, other, remote, settings, nc_client, temp_dirs, disk, image_paths, included_slides,
                   append_video_clip, fps, slideshow_target_duration,
                   slideshow_video, slideshow_audio, final_video, music_locals,
                   current_stage, calls, uploaded>>

\* a removal that is skipped when one of the writes has raised
audio_cleanup_after_success(files, failed) ==
    IF failed THEN files ELSE files \ {AUDIO_TEMP}

\* if audio_temp and os.path.exists(audio_temp): os.remove(audio_temp)
audio_cleanup(files, failed) == files \ {AUDIO_TEMP}

\* lines 284-286: the finally clause of write_video_manually
\* an export whose exception is swallowed
after_export_swallowed(failed) == "upload"

\* lines 188-195: an exception of write_video_manually leaves the try block,
\* a return goes on to the upload
after_export(failed) == IF failed THEN "finally" ELSE "upload"

WriteFinally ==
    /\ pc = "write_finally"
    /\ disk' = audio_cleanup(disk, outcome # "running")
    /\ pc' = after_export(outcome # "running")
    /\ UNCHANGED <<cfg, other, remote, settings, nc_client, outcome, temp_dirs, image_paths,
                   included_slides, append_video_clip, fps,
                   slideshow_target_duration, slideshow_video, slideshow_audio,
                   final_video, music_locals, current_stage, calls, output_file,
                   uploaded>>

(***************************************************************************)
(* 6. Upload and return (video_engine.py 191-202), run without a           *)
(* status_callback.                                                        *)
(***************************************************************************)
\* a test that looks at the upload path only
should_upload_path_only(client, upload_nextcloud_path) == upload_nextcloud_path

\* if self.nc_client and self.config.upload_nextcloud_path
should_upload(client, upload_nextcloud_path) == client /\ upload_nextcloud_path

Upload ==
    /\ pc = "upload"
    /\ IF should_upload(nc_client, self_config.upload_nextcloud_path)
       THEN /\ current_stage' = "Uploading"
            /\ calls' = Append(calls, "upload_file")
            /\ \/ uploaded' = output_file /\ outcome' = "returned"
               \/ \* upload_file re-raises the RequestException
                  UNCHANGED uploaded /\ outcome' = "RequestException"
       ELSE /\ outcome' = "returned"
            /\ UNCHANGED <<current_stage, calls, uploaded>>
    /\ pc' = "finally"
    /\ UNCHANGED <<cfg, other, remote, settings, nc_client, temp_dirs, disk, image_paths, included_slides,
                   append_video_clip, fps, slideshow_target_duration,
                   slideshow_video, slideshow_audio, final_video, music_locals,
                   output_file>>

(***************************************************************************)
(* The finally clause of create_slideshow (video_engine.py 204-209).       *)
(***************************************************************************)
\* the directories either invocation may create
OTHER_TEMP_IMG_DIR == <<47, 116, 109, 112, 47, 105, 109, 103, 50>>

AllTempDirs == {TEMP_IMG_DIR, TEMP_MUSIC_DIR, TEMP_VID_DIR, OTHER_TEMP_IMG_DIR}

\* a cleanup that empties the temporary folder
remove_all_temp_dirs(files, dirs) == files \ AllTempDirs

\* for d in temp_dirs: shutil.rmtree(d) when it exists
remove_temp_dirs(files, dirs) == files \ Range(dirs)

Finally ==
    /\ pc = "finally"
    /\ disk' = remove_temp_dirs(disk, temp_dirs)
    /\ pc' = "done"
    /\ UNCHANGED <<cfg, other, remote, settings, nc_client, outcome, temp_dirs, image_paths,
                   included_slides, append_video_clip, fps,
                   slideshow_target_duration, slideshow_video, slideshow_audio,
                   final_video, music_locals, current_stage, calls, output_file,
                   uploaded>>

(***************************************************************************)
(* The pipeline.                                                           *)
(***************************************************************************)
Next ==
    \/ SourceImages(EnginePool)
    \/ PrepareAppendVideo
    \/ CalculateDurations
    \/ GenerateSlideshow
    \/ MusicList(EngineMusicPool)
    \/ MusicRefill
    \/ MusicDraw
    \/ MusicCompose
    \/ SetAudio
    \/ ComposeFinal
    \/ ApplyTimer
    \/ WriteAudio
    \/ WriteVideo
    \/ WriteFinally
    \/ Upload
    \/ Finally

Spec == Init /\ [][Next]_vars

(***************************************************************************)
(* The sourcing of the images on its own, over the larger folder.          *)
(***************************************************************************)
InitSort ==
    \E dep \in Deployments :
        InitRun(dep, 1, MaxTargetDuration, FALSE, FALSE) /\ settings = NoOverrides /\ other = NoOther /\ remote = {}

NextSort == SourceImages(SortPool)

SpecSort == InitSort /\ [][NextSort]_vars

(***************************************************************************)
(* The run up to the call of create_video, over the larger folder and      *)
(* without an append video.                                                *)
(***************************************************************************)
InitGenerate ==
    \E dep \in Deployments, d \in 1..MaxImageDuration, T \in 1..MaxTargetDuration :
        InitRun(dep, d, T, FALSE, FALSE) /\ settings = NoOverrides /\ other = NoOther /\ remote = {}

NextGenerate ==
    \/ SourceImages(SortPool)
    \/ PrepareAppendVideo
    \/ CalculateDurations
    \/ GenerateSlideshow

SpecGenerate == InitGenerate /\ [][NextGenerate]_vars

(***************************************************************************)
(* SlideshowGenerator.apply_timer_overlay on its own: a call on a track of *)
(* any duration up to MaxTargetDuration seconds, counted in ticks, with    *)
(* any start offset within the track and total_duration = the duration.    *)
(***************************************************************************)
InitTimer ==
    \E D \in 0..(MaxTargetDuration * TicksPerSecond) :
        /\ cfg = Config(CHOOSE dep \in Deployments : ~dep.nc_client /\ dep.source = "local",
                        1, MaxTargetDuration, FALSE, TRUE)
        /\ nc_client = FALSE
        /\ pc = "timer"
        /\ outcome = "running"
        /\ temp_dirs = <<>>
        /\ disk = {}
        /\ image_paths = None
        /\ included_slides = <<>>
        /\ append_video_clip = None
        /\ fps = DEFAULT_FPS
        /\ slideshow_target_duration = 0
        /\ slideshow_video = None
        /\ slideshow_audio = None
        /\ final_video = Some([ parts |-> <<"slideshow">>, duration |-> D,
                                fps |-> DEFAULT_FPS, has_audio |-> TRUE,
                                timer_start |-> 0, timer_clips |-> <<>>,
                                attr_clips |-> <<>> ])
        /\ music_files = <<>>
        /\ music_pool = <<>>
        /\ selected_music = <<>>
        /\ current_music_duration = 0
        /\ round_draws = <<>>
        /\ current_stage = "None"
        /\ calls = <<>>
        /\ output_file = None
        /\ uploaded = None
        /\ settings = NoOverrides /\ other = NoOther /\ remote = {}

ApplyTimerOverlay ==
    /\ pc = "timer"
    /\ \E start_time_offset \in 0..final_video[1].duration :
          TimerOverlayCall(start_time_offset, TicksPerSecond)
    /\ pc' = "write"
    /\ UNCHANGED <<cfg, other, remote, settings, nc_client, outcome, temp_dirs, disk, image_paths,
                   included_slides, append_video_clip, fps,
                   slideshow_target_duration, slideshow_video, slideshow_audio,
                   music_locals, current_stage, calls, output_file, uploaded>>

NextTimer == ApplyTimerOverlay

SpecTimer == InitTimer /\ [][NextTimer]_vars

(***************************************************************************)
(* validate_resources (video_engine.py 52-105).  disk holds the local      *)
(* paths that exist, remote the paths on the server.                       *)
(***************************************************************************)
\* the attributes Config.__init__ assigns (config_manager.py 102-151)
ConfigAttributes ==
    { "image_duration", "target_video_duration", "image_folder", "output_folder",
      "music_folder", "output_filepath", "nc_url", "nc_user", "nc_pass",
      "nc_image_path", "nextcloud_image_path", "nc_upload_path",
      "upload_nextcloud_path", "nc_insecure", "image_source", "music_source",
      "append_video_path", "append_video_source", "matrix_homeserver",
      "matrix_token", "matrix_room", "matrix_user_id", "ntfy_url", "ntfy_topic",
      "ntfy_token", "enable_heartbeat_ntfy", "enable_ntfy", "cron_schedule",
      "enable_heartbeat", "enable_timer", "timer_minutes", "timer_position" }

\* UPLOAD_NEXTCLOUD_PATH, "o/s.mp4"
UPLOAD_PATH == <<111, 47, 115, 46, 109, 112, 52>>

\* os.path.dirname
dirname(path) ==
    LET slashes == {i \in 1..Len(path) : path[i] = 47}
    IN  IF slashes = {} THEN <<>>
        ELSE SubSeq(path, 1, (CHOOSE i \in slashes : \A j \in slashes : j <= i) - 1)

\* NextcloudClient.check_path_exists: whether the server has the path
check_path_exists(remote_files, path) == path \in remote_files

\* the paths the four checks look at
ResourcePaths ==
    [ local |-> {IMAGE_FOLDER, MUSIC_FOLDER, APPEND_VIDEO_PATH},
      remote |-> {REMOTE_IMAGE_PATH, REMOTE_MUSIC_PATH, APPEND_VIDEO_PATH,
                  dirname(UPLOAD_PATH)} ]

\* lines 63-71
validate_images(config, client, files, remote_files) ==
    IF config.image_source = "nextcloud"
    THEN IF ~client THEN "ValueError"
         ELSE IF ~check_path_exists(remote_files, REMOTE_IMAGE_PATH) THEN "ValueError"
         ELSE "ok"
    ELSE IF "images_folder" \notin ConfigAttributes THEN "AttributeError"
         ELSE IF IMAGE_FOLDER \notin files THEN "ValueError"
         ELSE "ok"

\* lines 73-82
validate_music(config, client, files, remote_files) ==
    IF ~config.music_folder THEN "ok"
    ELSE IF config.music_source = "nextcloud"
    THEN IF ~client THEN "ValueError"
         ELSE IF ~check_path_exists(remote_files, REMOTE_MUSIC_PATH) THEN "ValueError"
         ELSE "ok"
    ELSE IF MUSIC_FOLDER \notin files THEN "ValueError" ELSE "ok"

\* lines 84-93
validate_append_video(config, client, files, remote_files) ==
    IF ~config.append_video_path THEN "ok"
    ELSE IF config.append_video_source = "nextcloud"
    THEN IF ~client THEN "ValueError"
         ELSE IF ~check_path_exists(remote_files, APPEND_VIDEO_PATH) THEN "ValueError"
         ELSE "ok"
    ELSE IF APPEND_VIDEO_PATH \notin files THEN "ValueError" ELSE "ok"

\* lines 95-103
validate_upload(config, client, files, remote_files) ==
    IF ~config.upload_nextcloud_path THEN "ok"
    ELSE IF ~client THEN "ValueError"
    ELSE IF dirname(UPLOAD_PATH) # <<>>
            /\ ~check_path_exists(remote_files, dirname(UPLOAD_PATH))
    THEN "ValueError"
    ELSE "ok"

\* the four checks in order; the first exception leaves the call
validate_resources(config, client, files, remote_files) ==
    LET checks == << validate_images(config, client, files, remote_files),
                     validate_music(config, client, files, remote_files),
                     validate_append_video(config, client, files, remote_files),
                     validate_upload(config, client, files, remote_files) >>
        raised == {i \in 1..4 : checks[i] # "ok"}
    IN  IF raised = {} THEN "returned"
        ELSE checks[CHOOSE i \in raised : \A j \in raised : i <= j]

InitValidate ==
    \E dep \in Deployments, append \in BOOLEAN,
       files \in SUBSET ResourcePaths.local, remote_files \in SUBSET ResourcePaths.remote :
        /\ cfg = Config(dep, 1, MaxTargetDuration, append, FALSE)
        /\ nc_client = dep.nc_client
        /\ pc = "validate"
        /\ outcome = "running"
        /\ temp_dirs = <<>>
        /\ disk = files
        /\ remote = remote_files
        /\ image_paths = None
        /\ included_slides = <<>>
        /\ append_video_clip = None
        /\ fps = DEFAULT_FPS
        /\ slideshow_target_duration = 0
        /\ slideshow_video = None
        /\ slideshow_audio = None
        /\ final_video = None
        /\ music_files = <<>>
        /\ music_pool = <<>>
        /\ selected_music = <<>>
        /\ current_music_duration = 0
        /\ round_draws = <<>>
        /\ current_stage = "None"
        /\ calls = <<>>
        /\ output_file = None
        /\ uploaded = None
        /\ settings = NoOverrides
        /\ other = NoOther

ValidateResources ==
    /\ pc = "validate"
    /\ current_stage' = "Validating"
    /\ outcome' = validate_resources(self_config, nc_client, disk, remote)
    /\ pc' = "validated"
    /\ UNCHANGED <<cfg, other, remote, settings, nc_client, temp_dirs, disk, image_paths,
                   included_slides, append_video_clip, fps,
                   slideshow_target_duration, slideshow_video, slideshow_audio,
                   final_video, music_locals, calls, output_file, uploaded>>

NextValidate == ValidateResources

SpecValidate == InitValidate /\ [][NextValidate]_vars

(***************************************************************************)
(* A run beside the settings commands.  The Config is built from the       *)
(* store as it is when the run starts; SettingsManager.set, delete and     *)
(* reset_all may run between any two steps of the run.                     *)
(***************************************************************************)
\* the stores the commands can leave behind
Stores ==
    LET values == UNION {SettingValues[key] : key \in SettingKeys}
    IN  {store \in [SettingKeys -> {None} \cup {Some(value) : value \in values}] :
            \A key \in SettingKeys :
                store[key] # None => store[key][1] \in SettingValues[key]}

InitSettings ==
    \E store \in Stores, append \in BOOLEAN :
        LET dep == CHOOSE dep \in Deployments : ~dep.nc_client /\ dep.source = "local"
            config == ConfigFrom(store, Config(dep, 1, 0, append, FALSE))
        IN  /\ InitRun(dep, config.image_duration, config.target_video_duration,
                       append, config.enable_timer)
            /\ settings = store
            /\ other = NoOther /\ remote = {}

\* SettingsManager.set: Setting.replace(key=key, value=str(value))
SettingsSet ==
    /\ pc # "done"
    /\ \E key \in SettingKeys, value \in UNION {SettingValues[k] : k \in SettingKeys} :
          /\ value \in SettingValues[key]
          /\ settings' = [settings EXCEPT ![key] = Some(value)]
    /\ UNCHANGED <<cfg, other, remote, nc_client, pc, outcome, temp_dirs, disk, image_paths,
                   included_slides, append_video_clip, fps,
                   slideshow_target_duration, slideshow_video, slideshow_audio,
                   final_video, music_locals, current_stage, calls, output_file,
                   uploaded>>

\* SettingsManager.delete: the row of the key is removed
SettingsDelete ==
    /\ pc # "done"
    /\ \E key \in SettingKeys : settings' = [settings EXCEPT ![key] = None]
    /\ UNCHANGED <<cfg, other, remote, nc_client, pc, outcome, temp_dirs, disk, image_paths,
                   included_slides, append_video_clip, fps,
                   slideshow_target_duration, slideshow_video, slideshow_audio,
                   final_video, music_locals, current_stage, calls, output_file,
                   uploaded>>

\* SettingsManager.reset_all: every row is removed
SettingsResetAll ==
    /\ pc # "done"
    /\ settings' = NoOverrides
    /\ UNCHANGED <<cfg, other, remote, nc_client, pc, outcome, temp_dirs, disk, image_paths,
                   included_slides, append_video_clip, fps,
                   slideshow_target_duration, slideshow_video, slideshow_audio,
                   final_video, music_locals, current_stage, calls, output_file,
                   uploaded>>

NextSettings ==
    \/ SourceImages({F_2})
    \/ PrepareAppendVideo
    \/ CalculateDurations
    \/ GenerateSlideshow
    \/ MusicList({M_a})
    \/ MusicRefill
    \/ MusicDraw
    \/ MusicCompose
    \/ SetAudio
    \/ ComposeFinal
    \/ ApplyTimer
    \/ WriteAudio
    \/ WriteVideo
    \/ WriteFinally
    \/ Upload
    \/ Finally
    \/ SettingsSet
    \/ SettingsDelete
    \/ SettingsResetAll

SpecSettings == InitSettings /\ [][NextSettings]_vars

(***************************************************************************)
(* The pipeline with the three-track music library: local sources, one     *)
(* image, with and without an append video.                                *)
(***************************************************************************)
InitShuffle ==
    \E T \in 0..MaxTargetDuration, append \in BOOLEAN :
        LET dep == CHOOSE dep \in Deployments : ~dep.nc_client /\ dep.source = "local"
        IN  InitRun(dep, 1, T, append, FALSE) /\ settings = NoOverrides /\ other = NoOther /\ remote = {}

NextShuffle ==
    \/ SourceImages({F_2})
    \/ PrepareAppendVideo
    \/ CalculateDurations
    \/ GenerateSlideshow
    \/ MusicList(AudioPool)
    \/ MusicRefill
    \/ MusicDraw
    \/ MusicCompose
    \/ SetAudio
    \/ ComposeFinal
    \/ ApplyTimer
    \/ WriteAudio
    \/ WriteVideo
    \/ WriteFinally
    \/ Upload
    \/ Finally

SpecShuffle == InitShuffle /\ [][NextShuffle]_vars

(***************************************************************************)
(* Two invocations of create_slideshow on one VideoEngine, interleaved at  *)
(* the awaits.  The second one is followed through what it shares with the *)
(* first: the HealthManager, the disk and the output path; mkdtemp gives   *)
(* it a directory of its own, "/tmp/img2".                                 *)
(***************************************************************************)
InitConcurrent ==
    \E T \in 1..2 :
        LET dep == CHOOSE dep \in Deployments : dep.nc_client /\ dep.source = "nextcloud"
        IN  /\ InitRun(dep, 1, T, FALSE, FALSE)
            /\ settings = NoOverrides
            /\ other = [pc |-> "source_images", temp_dirs |-> <<>>]
            /\ remote = {}

OtherUnchanged ==
    UNCHANGED <<cfg, settings, remote, nc_client, pc, outcome, temp_dirs,
                image_paths, included_slides, append_video_clip, fps,
                slideshow_target_duration, slideshow_video, slideshow_audio,
                final_video, music_locals, calls, uploaded>>

\* lines 124-130: update_status("Sourcing") and the download into a new
\* temporary directory
OtherSourceImages ==
    /\ other.pc = "source_images"
    /\ current_stage' = "Sourcing"
    /\ disk' = disk \cup {OTHER_TEMP_IMG_DIR}
    /\ other' = [pc |-> "generate", temp_dirs |-> Append(other.temp_dirs, OTHER_TEMP_IMG_DIR)]
    /\ UNCHANGED output_file
    /\ OtherUnchanged

\* lines 151-158: update_status("Generating")
OtherGenerate ==
    /\ other.pc = "generate"
    /\ current_stage' = "Generating"
    /\ other' = [other EXCEPT !.pc = "write"]
    /\ UNCHANGED <<disk, output_file>>
    /\ OtherUnchanged

\* lines 188-189 and 261-286: update_status("Encoding") and the export to
\* output_filepath
OtherWrite ==
    /\ other.pc = "write"
    /\ current_stage' = "Encoding"
    /\ output_file' = Some([written_by |-> "other"])
    /\ other' = [other EXCEPT !.pc = "finally"]
    /\ UNCHANGED disk
    /\ OtherUnchanged

\* lines 204-209
OtherFinally ==
    /\ other.pc = "finally"
    /\ disk' = remove_temp_dirs(disk, other.temp_dirs)
    /\ other' = [other EXCEPT !.pc = "done"]
    /\ UNCHANGED <<current_stage, output_file>>
    /\ OtherUnchanged

NextConcurrent ==
    \/ SourceImages({F_2})
    \/ PrepareAppendVideo
    \/ CalculateDurations
    \/ GenerateSlideshow
    \/ MusicList({M_a})
    \/ MusicRefill
    \/ MusicDraw
    \/ MusicCompose
    \/ SetAudio
    \/ ComposeFinal
    \/ ApplyTimer
    \/ WriteAudio
    \/ WriteVideo
    \/ WriteFinally
    \/ Upload
    \/ Finally
    \/ OtherSourceImages
    \/ OtherGenerate
    \/ OtherWrite
    \/ OtherFinally

SpecConcurrent == InitConcurrent /\ [][NextConcurrent]_vars

(***************************************************************************)
(* The two overlays on their own: apply_timer_overlay as above and         *)
(* apply_music_attributions with any list of at most two attributions that *)
(* start inside the track, at its end or after it, shown for a tick, a     *)
(* second or the default 30 seconds.                                       *)
(***************************************************************************)
AttributionLists(video_duration) ==
    LET starts == 0..(video_duration + 1)
    IN  {<<>>} \cup {<< <<a, "A">> >> : a \in starts}
               \cup {<< <<a, "A">>, <<b, "B">> >> : a \in starts, b \in starts}

ApplyMusicAttributions ==
    /\ pc = "timer"
    /\ \E attributions \in AttributionLists(final_video[1].duration),
          display_duration \in {1, TicksPerSecond, DISPLAY_DURATION * TicksPerSecond} :
          LET attr_clips == attribution_clips(final_video[1].duration,
                                attributions, display_duration)
          IN  final_video' = Some([final_video[1] EXCEPT
                  !.attr_clips = attr_clips,
                  !.duration = overlaid_duration(@, attr_clips)])
    /\ pc' = "attributed"
    /\ UNCHANGED <<cfg, other, remote, settings, nc_client, outcome, temp_dirs, disk, image_paths,
                   included_slides, append_video_clip, fps,
                   slideshow_target_duration, slideshow_video, slideshow_audio,
                   music_locals, current_stage, calls, output_file, uploaded>>

NextOverlay ==
    \/ ApplyTimerOverlay
    \/ ApplyMusicAttributions

SpecOverlay == InitTimer /\ [][NextOverlay]_vars

(***************************************************************************)
(* AudioManager.prepare_background_music on its own: a call with           *)
(* target_duration drawn from 0..MaxTargetDuration, over the larger music  *)
(* folder.                                                                 *)
(***************************************************************************)
InitAudio ==
    \E dep \in Deployments, T \in 0..MaxTargetDuration :
        /\ cfg = Config(dep, 1, T, FALSE, FALSE)
        /\ nc_client = dep.nc_client
        /\ pc = "music"
        /\ outcome = "running"
        /\ temp_dirs = <<>>
        /\ disk = {}
        /\ image_paths = None
        /\ included_slides = <<>>
        /\ append_video_clip = None
        /\ fps = DEFAULT_FPS
        /\ slideshow_target_duration = T
        /\ slideshow_video = None
        /\ slideshow_audio = None
        /\ final_video = None
        /\ music_files = <<>>
        /\ music_pool = <<>>
        /\ selected_music = <<>>
        /\ current_music_duration = 0
        /\ round_draws = <<>>
        /\ current_stage = "None"
        /\ calls = <<>>
        /\ output_file = None
        /\ uploaded = None
        /\ settings = NoOverrides /\ other = NoOther /\ remote = {}

NextAudio ==
    \/ MusicList(AudioPool)
    \/ MusicRefill
    \/ MusicDraw
    \/ MusicCompose

SpecAudio == InitAudio /\ [][NextAudio]_vars

\* the call runs on one thread that executes statement after statement:
\* a refill, a draw or the return that can be taken is taken
SpecAudioLive ==
    InitAudio /\ [][NextAudio]_vars
    /\ WF_vars(MusicRefill) /\ WF_vars(MusicDraw) /\ WF_vars(MusicCompose)

(***************************************************************************)
(* Properties.                                                             *)
(***************************************************************************)
\* ceil(a / b) for a >= 0, b > 0, stated by its defining inequalities
IsCeil(r, a, b) == r * b >= a /\ (r - 1) * b < a

FivePaths == <<join(IMAGE_FOLDER, F_01), join(IMAGE_FOLDER, F_1), join(IMAGE_FOLDER, F_2),
               join(IMAGE_FOLDER, F_10), join(IMAGE_FOLDER, F_a)>>

\* C1: create_video repeats the n decoded images r = ceil(T / (n*d)) times
\* and cuts the concatenation (never shorter than T) to a track of duration
\* exactly T; n=5, d=10, T=37 gives r=1 and 37 s cut from a 50 s loop.
C1_SlideshowDurationExact ==
    slideshow_video # None =>
        LET v == slideshow_video[1]
            n == Len(v.clips)
            e == create_video(FivePaths, Range(FivePaths), 10, 37, v.fps)[1]
        IN  /\ n > 0
            /\ v.image_duration = cfg.image_duration
            /\ IsCeil(v.num_repeats, slideshow_target_duration, n * v.image_duration)
            /\ v.source_duration = v.num_repeats * n * v.image_duration
            /\ v.source_duration >= v.duration
            /\ v.duration = slideshow_target_duration
            /\ e.num_repeats = 1 /\ e.source_duration = 50 /\ e.duration = 37

\* a slideshow of several repeats whose last repeat is cut, built from the
\* images left after one failed to decode
C1_Witness ==
    /\ slideshow_video # None
    /\ slideshow_video[1].num_repeats >= 2
    /\ slideshow_video[1].source_duration > slideshow_video[1].duration
    /\ Len(slideshow_video[1].clips) < Len(image_paths[1])

\* C2: the track prepare_background_music returns has duration exactly
\* target_duration and carries music only on [0, max(0, target_duration - 5)].
C2_MusicDurationAndSilence ==
    (pc = "set_audio" /\ slideshow_audio # None) =>
        LET a == slideshow_audio[1]
            T == slideshow_target_duration
        IN  /\ a.duration = T
            /\ a.music_end <= (IF T > 5 THEN T - 5 ELSE 0)
            /\ T - a.music_end >= (IF T > 5 THEN 5 ELSE T)

\* a library of the one 3-second track, looped for a longer target
C2_Witness ==
    /\ pc = "set_audio"
    /\ slideshow_audio # None
    /\ slideshow_target_duration > 5
    /\ slideshow_audio[1].music_end > 0
    /\ Len(slideshow_audio[1].tracks) > 1
    /\ \A i \in 1..Len(slideshow_audio[1].tracks) :
          /\ basename(slideshow_audio[1].tracks[i]) = M_s
          /\ MusicInfo(M_s).duration < slideshow_target_duration

\* C3: the audio attached to the slideshow is as long as the slideshow,
\* whether it is composed music or the silence put in place of None.
C3_AudioMatchesSlideshow ==
    (slideshow_video # None /\ slideshow_video[1].audio # None) =>
        /\ slideshow_video[1].audio[1].duration = slideshow_target_duration
        /\ slideshow_video[1].audio[1].duration = slideshow_video[1].duration

\* a run past the export whose slideshow carries composed music, cut 5
\* seconds before the end of a slideshow that an append video follows
C3_Witness ==
    /\ slideshow_video # None
    /\ slideshow_video[1].audio # None
    /\ slideshow_video[1].audio[1].tracks # <<>>
    /\ slideshow_video[1].audio[1].music_end > 0
    /\ slideshow_target_duration < cfg.target_video_duration
    /\ output_file # None

\* an append video of duration A with 0 < A <= T loaded and images found
AppendFits ==
    /\ append_video_clip # None
    /\ image_paths # None
    /\ image_paths[1] # <<>>
    /\ append_video_clip[1].duration > 0
    /\ append_video_clip[1].duration <= cfg.target_video_duration

\* C4 as claimed: with images and an append video of duration 0 < A <= T the
\* slideshow portion is max(0, T - A), and the final track is the slideshow
\* followed by the append video, of total duration T.
C4_Original ==
    (final_video # None /\ AppendFits) =>
        /\ slideshow_target_duration =
              Max(0, cfg.target_video_duration - append_video_clip[1].duration)
        /\ final_video[1].parts = <<"slideshow", "append">>
        /\ final_video[1].duration = cfg.target_video_duration

\* C4 as amended: the slideshow portion is max(0, T - A) and the final track
\* has duration T; it is the slideshow (of T - A seconds) followed by the
\* append video when A < T and the append video alone when A = T.
C4_AppendFillsTarget ==
    (final_video # None /\ AppendFits) =>
        LET A == append_video_clip[1].duration
            T == cfg.target_video_duration
        IN  /\ slideshow_target_duration = Max(0, T - A)
            /\ final_video[1].duration = T
            /\ A < T => /\ final_video[1].parts = <<"slideshow", "append">>
                        /\ slideshow_video # None
                        /\ slideshow_video[1].duration = T - A
            /\ A = T => /\ final_video[1].parts = <<"append">>
                        /\ slideshow_video = None

\* a slideshow and a shorter append video exported as one file
C4_Witness ==
    /\ final_video # None
    /\ AppendFits
    /\ append_video_clip[1].duration < cfg.target_video_duration
    /\ final_video[1].parts = <<"slideshow", "append">>
    /\ output_file # None
    /\ output_file[1].duration = cfg.target_video_duration

\* an append video longer than the target loaded
AppendExceeds ==
    /\ append_video_clip # None
    /\ cfg.target_video_duration < append_video_clip[1].duration
    /\ pc \notin {"source_images", "append_video", "durations"}

\* C5: when the target is smaller than the append video's duration A, the
\* slideshow portion is 0, create_video and the music preparation are not
\* called, no slideshow track exists and the output's duration is A.
C5_AppendOnlyWhenTargetSmaller ==
    AppendExceeds =>
        /\ slideshow_target_duration = 0
        /\ slideshow_video = None
        /\ \A i \in 1..Len(calls) :
              calls[i] \notin {"create_video", "prepare_background_music"}
        /\ final_video # None =>
              /\ final_video[1].parts = <<"append">>
              /\ final_video[1].duration = append_video_clip[1].duration
        /\ output_file # None =>
              output_file[1].duration = append_video_clip[1].duration

\* the append video alone exported, the target being shorter than it
C5_Witness ==
    /\ AppendExceeds
    /\ cfg.target_video_duration > 0
    /\ pc = "done"
    /\ outcome = "returned"
    /\ output_file # None
    /\ output_file[1].duration = append_video_clip[1].duration

\* the order the image sequence is claimed to have, on basenames: names
\* that start with digits first, by the value of the digits and then by
\* name; the other names after them, by name
StartsWithDigit(name) == name # <<>> /\ IsDigit(name[1])
LeadingNumber(name) == ParseInt(SubSeq(name, 1, DigitRun(name)))
Precedes(a, b) ==
    IF StartsWithDigit(a)
    THEN \/ ~StartsWithDigit(b)
         \/ LeadingNumber(a) < LeadingNumber(b)
         \/ LeadingNumber(a) = LeadingNumber(b) /\ StrLess(a, b)
    ELSE ~StartsWithDigit(b) /\ StrLess(a, b)

\* C6: the sourced images are in sort_key order: digit-prefixed names first
\* by number then name, the others after them by name; the folder
\* {"10.jpg","2.jpg","a.jpg","1.jpg"} comes out as 1.jpg, 2.jpg, 10.jpg, a.jpg.
C6_ImageSequenceOrdered ==
    image_paths # None =>
        /\ \A i, j \in 1..Len(image_paths[1]) :
              i < j => Precedes(basename(image_paths[1][i]), basename(image_paths[1][j]))
        /\ Range(included_slides) = {F_10, F_2, F_a, F_1} =>
              included_slides = <<F_1, F_2, F_10, F_a>>

\* the folder of the example, sourced
C6_Witness ==
    /\ image_paths # None
    /\ Len(image_paths[1]) = 4
    /\ included_slides = <<F_1, F_2, F_10, F_a>>

\* C7: the image sequence depends only on the set of names found: sorting
\* any enumeration order of the same files gives the sequence of this run.
C7_OrderIndependentOfEnumeration ==
    image_paths # None =>
        \A o \in Orders(Range(image_paths[1])) : SortPaths(o) = image_paths[1]

\* a downloaded folder with two names of the same leading number
C7_Witness ==
    /\ image_paths # None
    /\ Len(image_paths[1]) >= 3
    /\ TEMP_IMG_DIR \in disk
    /\ {F_1, F_01} \subseteq Range(included_slides)

\* C8: the frame rate is 5 without an append video (or without its fps),
\* else the append video's fps clamped to [5, 30] and rounded to 2 decimals;
\* it is within [5, 30] and is the rate of the slideshow, of the final track
\* and of the export.
C8_FrameRate ==
    /\ fps >= 5000 /\ fps <= 30000
    /\ fps % 10 = 0
    /\ IF append_video_clip = None \/ append_video_clip[1].reader_fps = 0
       THEN fps = 5000
       ELSE LET r == append_video_clip[1].reader_fps
                clamped == IF r < 5000 THEN 5000 ELSE IF r > 30000 THEN 30000 ELSE r
            IN  fps - clamped <= 5 /\ clamped - fps <= 5
    /\ slideshow_video # None => slideshow_video[1].fps = fps
    /\ final_video # None => final_video[1].fps = fps
    /\ output_file # None => output_file[1].fps = fps

\* a slideshow and a 60 fps append video exported at 30 fps
C8_Witness ==
    /\ output_file # None
    /\ slideshow_video # None
    /\ append_video_clip # None
    /\ append_video_clip[1].reader_fps = 60000
    /\ fps = 30000
    /\ final_video[1].parts = <<"slideshow", "append">>

NoVideoContent == "RuntimeError: No video content created."

\* _compose_final has run
Composed ==
    \/ pc \in {"timer", "write", "write_video", "write_finally", "upload"}
    \/ outcome \in {"returned", "ExportError", "RequestException", NoVideoContent}

\* C9: _compose_final yields slideshow then append video when both exist,
\* the one that exists otherwise, and raises 'No video content created.'
\* exactly when neither exists; then nothing is exported or uploaded.
C9_ComposeFinal ==
    Composed =>
        /\ (outcome = NoVideoContent) <=> (slideshow_video = None /\ append_video_clip = None)
        /\ (outcome = NoVideoContent) <=> (final_video = None)
        /\ final_video # None =>
              final_video[1].parts =
                  IF slideshow_video # None /\ append_video_clip # None
                  THEN <<"slideshow", "append">>
                  ELSE IF append_video_clip # None THEN <<"append">>
                  ELSE <<"slideshow">>
        /\ outcome = NoVideoContent =>
              /\ pc \in {"finally", "done"}
              /\ output_file = None
              /\ uploaded = None
              /\ \A i \in 1..Len(calls) :
                    calls[i] \notin {"write_video_manually", "upload_file"}

\* a run with neither track ended by the failure
C9_Witness ==
    /\ pc = "done"
    /\ outcome = NoVideoContent
    /\ slideshow_video = None
    /\ append_video_clip = None

\* C10: with zero images the run fails with the no-images RuntimeError
\* before slideshow generation, music preparation or encoding start
\* (stated of the runs with a positive target duration).
C10_NoImagesAborts ==
    (pc = "done" /\ image_paths = Some(<<>>) /\ cfg.target_video_duration > 0) =>
        /\ outcome = "RuntimeError: No images found."
        /\ calls = <<>>
        /\ output_file = None

\* C11: when create_slideshow has returned or raised, none of the temporary
\* directories made during the run for the downloaded images, the music or
\* the append video is left on disk.
C11_TempDirsRemoved ==
    pc = "done" => disk \cap {TEMP_IMG_DIR, TEMP_MUSIC_DIR, TEMP_VID_DIR} = {}

\* C12: write_video_manually writes the audio of a final track that has one
\* to an intermediate file and hands that file to the video write; a track
\* without audio gets no intermediate file; once the call has returned or
\* raised, after either write, the intermediate file is gone.
C12_AudioTempRemoved ==
    /\ pc = "write_video" => (AUDIO_TEMP \in disk <=> final_video[1].has_audio)
    /\ output_file # None =>
          output_file[1].audiofile =
              IF final_video[1].has_audio THEN Some(AUDIO_TEMP) ELSE None
    /\ (final_video # None /\ ~final_video[1].has_audio) => AUDIO_TEMP \notin disk
    /\ pc \notin {"write_video", "write_finally"} => AUDIO_TEMP \notin disk

\* the export of a track with audio has failed and the call has raised
C12_Witness ==
    /\ pc = "finally"
    /\ outcome = "ExportError"
    /\ final_video # None
    /\ final_video[1].has_audio
    /\ calls[Len(calls)] = "write_video_manually"
    /\ AUDIO_TEMP \notin disk

\* the positions of a collaborator in the calls of the run
CallsOf(name) == {i \in 1..Len(calls) : calls[i] = name}

\* C13: the upload sink is called at most once in a run, only after
\* write_video_manually has exported the file, and only with a Nextcloud
\* client and an upload path configured; a failed export is followed by no
\* upload and is the exception the run ends with.
C13_UploadOnceAfterExport ==
    /\ Cardinality(CallsOf("upload_file")) <= 1
    /\ \A u \in CallsOf("upload_file") :
          /\ nc_client /\ cfg.upload_nextcloud_path
          /\ output_file # None
          /\ \E w \in CallsOf("write_video_manually") : w < u
    /\ uploaded # None => uploaded = output_file /\ CallsOf("upload_file") # {}
    /\ outcome = "ExportError" =>
          /\ CallsOf("upload_file") = {}
          /\ uploaded = None
          /\ pc \in {"write_finally", "finally", "done"}
    /\ (pc = "done" /\ outcome = "returned") =>
          (CallsOf("upload_file") # {} <=> nc_client /\ cfg.upload_nextcloud_path)

\* the exported file has been uploaded and the run has returned
C13_Witness ==
    /\ pc = "done"
    /\ outcome = "returned"
    /\ output_file # None
    /\ uploaded = output_file
    /\ calls[Len(calls)] = "upload_file"

\* C14: create_video drops an image that fails to decode or resize and goes
\* on: the slideshow holds every other image, in the order of image_paths,
\* and its repeats are built from those images only.
C14_DecodeFailureSkipped ==
    slideshow_video # None =>
        LET v == slideshow_video[1]
            paths == image_paths[1]
            Kept(p) == p \notin Range(v.skipped)
        IN  /\ Range(v.clips) \cup Range(v.skipped) = Range(paths)
            /\ Range(v.clips) \cap Range(v.skipped) = {}
            /\ v.clips = SelectSeq(paths, Kept)
            /\ \A i, j \in 1..Len(v.clips) : i < j =>
                  \E a, b \in 1..Len(paths) :
                      a < b /\ paths[a] = v.clips[i] /\ paths[b] = v.clips[j]
            /\ v.source_duration = v.num_repeats * Len(v.clips) * v.image_duration

\* the second of four images failed to decode: the slideshow is the first,
\* the third and the fourth
C14_Witness ==
    /\ slideshow_video # None
    /\ Len(image_paths[1]) = 4
    /\ slideshow_video[1].skipped = <<image_paths[1][2]>>
    /\ slideshow_video[1].clips =
          <<image_paths[1][1], image_paths[1][3], image_paths[1][4]>>

\* the append video is configured and the stage that loads it is over
\* without a clip
AppendLoadFailed ==
    /\ cfg.append_video_path
    /\ append_video_clip = None
    /\ pc \notin {"source_images", "append_video"}
    /\ image_paths # None

\* C15: an append video that fails to load (missing file, failed download,
\* decoder error) counts as no append video: the run goes on past the
\* stage, the slideshow portion is the whole target_video_duration and the
\* frame rate is the default.
C15_AppendLoadFailureTolerated ==
    AppendLoadFailed =>
        /\ fps = DEFAULT_FPS
        /\ ~(pc \in {"finally", "done"} /\ calls = <<>> /\ outcome = "OSError")
        /\ pc # "durations" => slideshow_target_duration = cfg.target_video_duration

\* the basenames of the images the slideshow of the run shows, in order
ShownSlides ==
    IF slideshow_video = None THEN <<>>
    ELSE [i \in 1..Len(slideshow_video[1].clips) |->
             basename(slideshow_video[1].clips[i])]

\* C16: the list create_slideshow returns is the basenames of the images in
\* the slideshow, in presentation order: it holds no image that failed to
\* decode and none at all when no slideshow was built (stated of the runs
\* with a positive target duration).
C16_ReturnedSlidesAreShown ==
    (pc = "done" /\ outcome = "returned" /\ cfg.target_video_duration > 0) =>
        included_slides = ShownSlides

\* C17: the draws of prepare_background_music go through the library pass
\* by pass: since the tracks were last level no track has been drawn twice,
\* the pool holds exactly the tracks not yet drawn in the pass and is
\* refilled only when it is empty; so each pass of len(library) draws is a
\* permutation of the library and no track is drawn a (k+1)-th time before
\* every other track has been drawn k times.
C17_DrawsWithoutReplacement ==
    pc = "music_loop" =>
        /\ \A i, j \in 1..Len(round_draws) : i # j => round_draws[i] # round_draws[j]
        /\ Range(round_draws) \subseteq Range(music_files)
        /\ \A i, j \in 1..Len(music_pool) : i # j => music_pool[i] # music_pool[j]
        /\ \/ Range(music_pool) = Range(music_files) \ Range(round_draws)
           \/ round_draws = <<>> /\ music_pool = <<>>

\* a library of three tracks, one draw into its second pass
C17_Witness ==
    /\ pc = "music_loop"
    /\ Len(music_files) = 3
    /\ Len(selected_music) = 2
    /\ Len(round_draws) = 1
    /\ Len(music_pool) = 2

\* the tracks of the music folder that a same-basename metadata file
\* ("a.txt" next to "a.mp3", "s.txt" next to "s.mp3") comes with
HasMetadata(track_path) == basename(track_path) \in {M_a, M_s}

\* the attributions claimed: for each selected track with a metadata file
\* that starts before target_duration, the offset it starts at and the
\* track whose metadata is shown, in the order of the offsets
ExpectedAttributions(selected, target_duration) ==
    LET Offset(i) == SumDurations(SubSeq(selected, 1, i - 1))
        Listed(i) == HasMetadata(selected[i]) /\ Offset(i) < target_duration
        kept == {i \in 1..Len(selected) : Listed(i)}
        Nth(k) == CHOOSE i \in kept : Cardinality({j \in kept : j < i}) = k - 1
    IN  [k \in 1..Cardinality(kept) |-> <<Offset(Nth(k)), selected[Nth(k)]>>]

\* C18: with the composed track prepare_background_music returns the
\* attributions ordered by offset: one (offset, metadata) entry for each
\* selected track that has a metadata file and starts before
\* target_duration, none for a track that starts at or after it (stated of
\* the calls with a positive target_duration).
C18_AttributionsReturned ==
    (pc = "set_audio" /\ slideshow_audio # None /\ slideshow_target_duration > 0) =>
        returned_attributions(slideshow_audio[1].tracks) =
            Some(ExpectedAttributions(slideshow_audio[1].tracks,
                                      slideshow_target_duration))

\* C19: when audio_fadeout raises, prepare_background_music still returns a
\* track: its duration is target_duration and its music is the sub-range
\* [0, max(0, target_duration - 5)] of the concatenation, without a fade.
C19_FadeFailureTolerated ==
    (pc = "set_audio" /\ slideshow_audio # None /\ ~slideshow_audio[1].faded) =>
        LET a == slideshow_audio[1]
            T == slideshow_target_duration
        IN  /\ a.tracks # <<>>
            /\ a.duration = T
            /\ a.music_end = (IF T > 5 THEN T - 5 ELSE 0)
            /\ a.fade_start = a.music_end

\* a call for more than 5 seconds returned music that was not faded
C19_Witness ==
    /\ pc = "set_audio"
    /\ slideshow_audio # None
    /\ ~slideshow_audio[1].faded
    /\ slideshow_target_duration > 5
    /\ slideshow_audio[1].music_end = slideshow_target_duration - 5

\* the whole seconds a timer clip shows
ShownSeconds(c) == c.clip.mins * 60 + c.clip.secs

\* C20: apply_timer_overlay with start offset s on a video of duration D
\* (total_duration = D) lays floor(D - s) clips over it; clip k starts at
\* s + k, lasts 1 second and shows floor(D - (s + k)) as minutes and seconds;
\* the clips count down by one second, the last one shows the last whole
\* second before the end and no clip goes past D.
C20_TimerCountdown ==
    (pc = "write" /\ final_video # None) =>
        LET v == final_video[1]
            D == v.duration
            s == v.timer_start
            u == TicksPerSecond
            n == Len(v.timer_clips)
        IN  /\ n * u <= D - s /\ D - s < (n + 1) * u
            /\ \A k \in 1..n :
                  LET c == v.timer_clips[k]
                  IN  /\ c.start = s + (k - 1) * u
                      /\ c.clip.duration = u
                      /\ c.clip.secs < 60
                      /\ ShownSeconds(c) * u <= D - c.start
                      /\ D - c.start < (ShownSeconds(c) + 1) * u
                      /\ c.start + c.clip.duration <= D
            /\ \A k \in 1..(n - 1) :
                  ShownSeconds(v.timer_clips[k + 1]) = ShownSeconds(v.timer_clips[k]) - 1
            /\ n > 0 =>
                  /\ ShownSeconds(v.timer_clips[n]) = 1
                  /\ D - (v.timer_clips[n].start + u) < u

\* a timer that starts inside the video and half a second off the whole
\* seconds to the end
C20_Witness ==
    /\ pc = "write"
    /\ final_video # None
    /\ final_video[1].timer_start > 0
    /\ Len(final_video[1].timer_clips) >= 3
    /\ (final_video[1].duration - final_video[1].timer_start) % TicksPerSecond # 0

\* C21: with the timer enabled and timer_position at its configured
\* default, every countdown box sits at the default position, centred
\* horizontally and 50 px from the top: x = (frame_width - 260) // 2, y = 50.
C21_TimerDefaultPosition ==
    (final_video # None /\ cfg.enable_timer /\ cfg.timer_position = "auto") =>
        \A k \in 1..Len(final_video[1].timer_clips) :
            final_video[1].timer_clips[k].clip.pos =
                [x |-> (FRAME_WIDTH - BOX_W) \div 2, y |-> 50]

\* C22: apply_timer_overlay and apply_music_attributions return a clip as
\* long as the clip they were given, for every start offset, attribution
\* list and display duration, with or without overlay clips.
C22_OverlaysKeepDuration ==
    [][pc = "timer" => final_video'[1].duration = final_video[1].duration]_vars

\* two attributions over the video, one cut at its end, and a third entry
\* dropped would start after it; and a timer laid over the video
C22_Witness ==
    /\ final_video # None
    /\ \/ /\ pc = "attributed"
          /\ Len(final_video[1].attr_clips) = 2
          /\ final_video[1].attr_clips[2].start + final_video[1].attr_clips[2].clip.duration
                = final_video[1].duration
          /\ final_video[1].attr_clips[1].clip.duration = 1
       \/ /\ pc = "write"
          /\ Len(final_video[1].timer_clips) = 2
          /\ final_video[1].timer_start > 0

\* C23: a run uses the settings its Config read when it was constructed: the
\* Config does not change while the run is in progress, whatever is written
\* to or removed from the settings store, and the slideshow portion, the
\* slide length and the countdown follow the Config, not the store.
FollowsConfig ==
    /\ pc = "generate" =>
          slideshow_target_duration =
              SlideshowTarget(cfg.target_video_duration, append_video_clip)
    /\ slideshow_video # None =>
          slideshow_video[1].image_duration = cfg.image_duration
    /\ (pc = "write" /\ final_video[1].duration > 0) =>
          (final_video[1].timer_clips # <<>>) = cfg.enable_timer

C23_ConfigReadOnce ==
    [][cfg' = cfg /\ FollowsConfig']_vars

\* overrides written during the run: the store now yields another target
\* duration, slide length and timer flag than the Config holds, and the run
\* has laid its countdown over a slideshow built with the Config's values
C23_Witness ==
    /\ pc = "write"
    /\ slideshow_video # None
    /\ cfg.enable_timer
    /\ final_video[1].timer_clips # <<>>
    /\ ConfigFrom(settings, cfg).target_video_duration # cfg.target_video_duration
    /\ ConfigFrom(settings, cfg).image_duration # cfg.image_duration
    /\ ~ConfigFrom(settings, cfg).enable_timer

\* the stage this invocation reported last, where its position tells
OwnStage ==
    CASE pc \in {"append_video", "durations", "generate"} -> "Sourcing"
      [] pc \in {"music", "music_loop", "set_audio"} -> "Generating"
      [] pc \in {"compose", "timer", "write"} ->
            IF slideshow_target_duration > 0 THEN "Generating" ELSE "Sourcing"
      [] pc \in {"write_video", "write_finally", "upload"} -> "Encoding"
      [] OTHER -> "not told"

\* the output file is the one this invocation exported
OwnOutput == output_file # None /\ "written_by" \notin DOMAIN output_file[1]

\* C24 as stated: a step of another invocation leaves alone everything this
\* invocation wrote: its temp-directory list, its clips, its temporary
\* directories, the stage it reported and the file it exported.
C24_NoSharedState ==
    [][other' # other =>
          /\ temp_dirs' = temp_dirs
          /\ <<slideshow_video, slideshow_audio, final_video>>' =
                <<slideshow_video, slideshow_audio, final_video>>
          /\ Range(temp_dirs) \cap disk' = Range(temp_dirs) \cap disk
          /\ current_stage = OwnStage => current_stage' = current_stage
          /\ OwnOutput => output_file' = output_file]_vars

\* C24 amended: the temp-directory list, the clips and the temporary
\* directories of an invocation are its own: a step of another invocation
\* neither changes the list or the clips nor deletes one of the directories,
\* and a step of this invocation deletes no directory of the other.
C24_RunStateIsPrivate ==
    [][/\ other' # other =>
             /\ temp_dirs' = temp_dirs
             /\ <<slideshow_video, slideshow_audio, final_video>>' =
                   <<slideshow_video, slideshow_audio, final_video>>
             /\ Range(temp_dirs) \cap disk' = Range(temp_dirs) \cap disk
       /\ other' = other =>
             Range(other.temp_dirs) \cap disk' = Range(other.temp_dirs) \cap disk]_vars

\* both invocations have downloaded into their directories, and one of them
\* has finished and removed its own: the other's is still there
C24_Witness ==
    \/ /\ pc = "done" /\ temp_dirs # <<>>
       /\ other.pc \in {"generate", "write", "finally"}
       /\ OTHER_TEMP_IMG_DIR \in disk
    \/ /\ other.pc = "done"
       /\ pc \notin {"source_images", "finally", "done"}
       /\ Range(temp_dirs) # {} /\ Range(temp_dirs) \subseteq disk

\* the durations of an audio track
Durations(audio) ==
    [duration |-> audio.duration, music_end |-> audio.music_end,
     fade_start |-> audio.fade_start]

\* the selection loop has met its target
LoopOver ==
    /\ pc = "music_loop"
    /\ current_music_duration >= slideshow_target_duration + MUSIC_BUFFER

\* C25: the durations of the three tracks depend on the inputs only: the
\* audio composed from the tracks this run selected has the durations of
\* the audio composed from the selection of any other shuffle of the same
\* library, and the slideshow and the final track have the durations the
\* configuration and the append video give.
C25_DurationsIndependentOfShuffle ==
    /\ LoopOver =>
          \A order \in Orders(Range(music_files)), faded \in BOOLEAN :
              Durations(compose_music(
                  SelectLoop(order, order, <<>>, 0, slideshow_target_duration),
                  slideshow_target_duration, faded))
              = Durations(compose_music(selected_music, slideshow_target_duration, faded))
    /\ slideshow_audio # None =>
          slideshow_audio[1].duration =
              SlideshowTarget(cfg.target_video_duration, append_video_clip)
    /\ slideshow_video # None =>
          slideshow_video[1].duration =
              SlideshowTarget(cfg.target_video_duration, append_video_clip)
    /\ final_video # None =>
          final_video[1].duration =
              (IF slideshow_video # None
               THEN SlideshowTarget(cfg.target_video_duration, append_video_clip) ELSE 0)
              + (IF append_video_clip # None THEN append_video_clip[1].duration ELSE 0)

\* the loop has selected other tracks than another shuffle of the library
\* would have, of another total length
C25_Witness ==
    /\ LoopOver
    /\ \E order \in Orders(Range(music_files)) :
          SumDurations(SelectLoop(order, order, <<>>, 0, slideshow_target_duration))
              # SumDurations(selected_music)

\* the stages in the order of the pipeline
StageRank(stage) ==
    CASE stage = "None" -> 0
      [] stage = "Sourcing" -> 1
      [] stage = "Generating" -> 2
      [] stage = "Encoding" -> 3
      [] stage = "Uploading" -> 4

\* C26: the reported stage only moves forward through Sourcing, Generating,
\* Encoding, Uploading; Encoding is reported only once the final track is
\* composed, Uploading only once the export has written the file without
\* a failure.
C26_StagesForward ==
    [][/\ StageRank(current_stage') >= StageRank(current_stage)
       /\ current_stage' = "Encoding" => final_video' # None
       /\ current_stage' = "Uploading" =>
             /\ current_stage \in {"Encoding", "Uploading"}
             /\ output_file' # None
             /\ \E i \in 1..Len(calls) : calls[i] = "write_video_manually"
             /\ current_stage # "Uploading" => outcome = "running"]_vars

\* a run that reported all four stages
C26_Witness ==
    /\ current_stage = "Uploading"
    /\ \E i \in 1..Len(calls) : calls[i] = "create_video"
    /\ \E i \in 1..Len(calls) : calls[i] = "prepare_background_music"
    /\ output_file # None

\* a resource the configuration names is missing or cannot be reached
ResourceMissing ==
    \/ IF cfg.image_source = "nextcloud"
       THEN ~nc_client \/ REMOTE_IMAGE_PATH \notin remote
       ELSE IMAGE_FOLDER \notin disk
    \/ cfg.music_folder /\
          IF cfg.music_source = "nextcloud"
          THEN ~nc_client \/ REMOTE_MUSIC_PATH \notin remote
          ELSE MUSIC_FOLDER \notin disk
    \/ cfg.append_video_path /\
          IF cfg.append_video_source = "nextcloud"
          THEN ~nc_client \/ APPEND_VIDEO_PATH \notin remote
          ELSE APPEND_VIDEO_PATH \notin disk
    \/ cfg.upload_nextcloud_path /\
          (~nc_client \/ dirname(UPLOAD_PATH) \notin remote)

\* C27: validate_resources raises ValueError when a configured resource is
\* missing and returns when all of them exist; with a local image source it
\* raises ValueError exactly when the local images folder does not exist.
C27_ValidateResources ==
    pc = "validated" =>
        /\ ResourceMissing => outcome = "ValueError"
        /\ ~ResourceMissing => outcome = "returned"

\* C28: the selection loop of prepare_background_music ends and the call
\* returns, with a track or with None, for every non-empty music library
\* and every target duration, also when tracks fail to load.
C28_MusicTerminates == (pc = "music_loop") ~> (pc = "set_audio")

\* C29: a run that finds zero images and loads its append video follows one
\* of the two policies whether or not the append video is shorter than the
\* target: it composes the append video alone, or it fails with the
\* no-images error (a run stopped by a failed music download aside).
C29_ZeroImagesOnePolicy ==
    (/\ pc = "done" /\ image_paths = Some(<<>>) /\ append_video_clip # None
     /\ outcome # "OSError") =>
        \/ outcome = "RuntimeError: No images found."
        \/ final_video # None /\ final_video[1].parts = <<"append">>

\* create_video was called with images and none of them could be decoded
AllImagesFailed ==
    /\ image_paths # None /\ image_paths[1] # <<>>
    /\ \E i \in 1..Len(calls) : calls[i] = "create_video"
    /\ slideshow_video = None

\* C30: when a slideshow is attempted and every image fails to decode, the
\* run ends with a failure that reaches the caller, nothing is exported or
\* uploaded, and no temporary directory of the run is left.
C30_AllImagesFailIsFatal ==
    (pc = "done" /\ AllImagesFailed) =>
        /\ outcome \notin {"running", "returned"}
        /\ output_file = None
        /\ uploaded = None
        /\ \A i \in 1..Len(calls) :
              calls[i] \notin {"write_video_manually", "upload_file"}
        /\ disk \cap {TEMP_IMG_DIR, TEMP_MUSIC_DIR, TEMP_VID_DIR} = {}

====
